---- MODULE Spec2Model ----
(***************************************************************************)
(* Static validation and cross-reference engine of the FlowGen editor:    *)
(* the C# signature parser (parseCodeFunctions), the type lattice         *)
(* (checkTypeCompatibility), the condition validator (validateExpression) *)
(* and the call-site validator (validateFunctionParams).                   *)
(*                                                                         *)
(* Text is modelled by what the code does with it.  Source lines of a     *)
(* code file are sequences of lexemes (maximal runs of word characters,   *)
(* single punctuation marks, blanks); condition texts are sequences of    *)
(* characters.  The regular expressions of the source are operators over  *)
(* these sequences.                                                        *)
(***************************************************************************)
EXTENDS Integers, Sequences, FiniteSets, TLC

VARIABLES
    \* checkTypeCompatibility: the two arguments and the returned value
    varType, expectedType, compatResult,
    \* parseCodeFunctions: the text being scanned and the locals of the scan
    lines, i, currentComments, functions,
    \* FlowEditor: global variables, the flow store (in insertion order, each
    \* flow with its stored nodes and its local variables), code files
    projectVariables, flows, codeFiles,
    \* FlowEditor: the tab bar, the active tab, the active flow, the nodes on
    \* the canvas, the id of the node open in the config panel, the cursor of
    \* the code editor, the issues of the last compile and the rows of the
    \* last reference search with the flags that show their panels, and the
    \* clock ids are made from (Date.now())
    tabs, activeTabId, activeFlowId, nodes, editingNode, codeCursorIndex,
    validationIssues, showCompilerPanel, referenceResults, showReferencePanel, clock,
    \* NodeConfigPanel: type of the node being edited, the form fields, the
    \* result of the validation effect, and whether the effect is still to
    \* run for the current render ("render") or has run ("idle")
    nodeType, label, description, loopCondition, subFlowId, code, selectedCodeFileId,
    selectedFunctionName, parameterValues, validationResult, pc,
    \* FlowEditor: the undo and redo stacks of the canvas
    past, future,
    \* FlowEditor: the running flag, the console log, the controller held by
    \* abortControllerRef, the controllers aborted so far, the runs whose
    \* response has not arrived yet, and the number of runs started
    isRunning, logs, abortControllerRef, aborted, pending, runs

typeVars == <<varType, expectedType, compatResult>>
parserVars == <<lines, i, currentComments, functions>>
editorVars == <<projectVariables, flows, codeFiles>>
tabVars == <<tabs, activeTabId, activeFlowId>>
outVars == <<validationIssues, showCompilerPanel, referenceResults, showReferencePanel>>
histVars == <<past, future>>
runVars == <<isRunning, logs, abortControllerRef, aborted, pending, runs>>
shellVars == <<tabVars, nodes, editingNode, codeCursorIndex, outVars, clock, histVars, runVars>>
formVars == <<nodeType, label, description, loopCondition, subFlowId, code, selectedCodeFileId,
              selectedFunctionName, parameterValues>>
panelVars == <<formVars, validationResult, pc>>
vars == <<typeVars, parserVars, editorVars, shellVars, panelVars>>

\* The value of a variable that holds nothing yet (null / undefined).
Null == [null |-> TRUE]

\* flows[id]: the flow stored under the key id.  An entry of the store is the
\* value with its key.
FlowOf(store, id) == store[CHOOSE k \in 1..Len(store) : store[k].key = id]

\* id in flows
HasFlow(store, id) == \E k \in 1..Len(store) : store[k].key = id

\* The value of a field an object does not have, as a string shows it.
Undefined == "undefined"

\* flow.id and flow.name of an entry of the store
FlowId(flow) == IF "id" \in DOMAIN flow THEN flow.id ELSE Undefined
FlowName(flow) == IF "name" \in DOMAIN flow THEN flow.name ELSE Undefined

\* flows[activeFlowId].variables: the local variables of the active flow.
localVariables == FlowOf(flows, activeFlowId).variables

---------------------------------------------------------------------------
(* Sequence helpers (Array.prototype / String.prototype of the source).   *)

RECURSIVE SeqsUpTo(_, _)
\* All sequences over S of length at most n.
SeqsUpTo(S, n) ==
    IF n = 0 THEN {<<>>}
    ELSE LET shorter == SeqsUpTo(S, n - 1)
         IN  shorter \cup {Append(s, x) : s \in {t \in shorter : Len(t) = n - 1}, x \in S}

RECURSIVE Join(_, _)
\* Array.prototype.join: the parts concatenated, sep between neighbours.
Join(parts, sep) ==
    IF parts = <<>> THEN <<>>
    ELSE IF Len(parts) = 1 THEN parts[1]
    ELSE parts[1] \o sep \o Join(Tail(parts), sep)

\* s.slice(from - 1): the suffix of s that starts at position from.
From(s, from) == IF from > Len(s) THEN <<>> ELSE SubSeq(s, from, Len(s))

---------------------------------------------------------------------------
(* Type lattice                                                            *)

\* Struct names a project may define (VariableType is open: "| string").
StructNames == {"Point", "Order"}

\* The VariableType vocabulary.
VariableType == {"string", "number", "boolean", "integer", "float", "datetime", "object"}
                    \cup StructNames

numberTypes == {"number", "integer", "float"}

\* checkTypeCompatibility with object accepted on the expected side only.
checkTypeCompatibilityOneWay(vType, eType) ==
    IF vType = eType THEN TRUE
    ELSE IF eType = "number" /\ vType \in numberTypes THEN TRUE
    ELSE IF eType \in numberTypes /\ vType = "number" THEN TRUE
    ELSE IF eType = "object" THEN TRUE
    ELSE FALSE

\* checkTypeCompatibility with number accepted for an expected integer or
\* float left out.
checkTypeCompatibilityWidening(vType, eType) ==
    IF vType = eType THEN TRUE
    ELSE IF eType = "number" /\ vType \in numberTypes THEN TRUE
    ELSE IF eType = "object" \/ vType = "object" THEN TRUE
    ELSE FALSE

checkTypeCompatibility(vType, eType) ==
    IF vType = eType THEN TRUE
    ELSE IF eType = "number" /\ vType \in numberTypes THEN TRUE
    ELSE IF eType \in numberTypes /\ vType = "number" THEN TRUE
    ELSE IF eType = "object" \/ vType = "object" THEN TRUE
    ELSE FALSE

---------------------------------------------------------------------------
(* Signature parser: parseCodeFunctions                                    *)
(*                                                                         *)
(* A line is a sequence of lexemes.  A lexeme is a maximal run of word    *)
(* characters (\w+), one punctuation mark, a comment marker, or a blank.  *)

WS == " "
\* The line break of a text of several lines.
NL == "\n"
Punctuation == {"(", ")", ",", "{", "}", "[", "]", "<", ">", ";", "=", "?", "//", "///"}

\* \s
IsSpace(x) == x = WS
\* \w+ : every lexeme that is neither a blank nor punctuation
IsWord(x) == x # WS /\ x \notin Punctuation
\* [\w<>\[\]]
IsTypeChar(x) == IsWord(x) \/ x \in {"<", ">", "[", "]"}

RECURSIVE TrimLeft(_)
TrimLeft(s) == IF s # <<>> /\ IsSpace(Head(s)) THEN TrimLeft(Tail(s)) ELSE s

RECURSIVE TrimRight(_)
TrimRight(s) ==
    IF s # <<>> /\ IsSpace(s[Len(s)]) THEN TrimRight(SubSeq(s, 1, Len(s) - 1)) ELSE s

\* String.prototype.trim
Trim(s) == TrimRight(TrimLeft(s))

\* line.startsWith(prefix), prefix one lexeme long.  "///" starts with "//".
StartsWith(line, prefix) ==
    /\ line # <<>>
    /\ \/ Head(line) = prefix
       \/ prefix = "//" /\ Head(line) = "///"

\* Characters of condition texts and variable names.
Letters == {"a", "b", "d", "n"}
Digits == {"5"}
\* [a-zA-Z0-9_]
IsTokenChar(c) == c \in Letters \cup Digits \cup {"_"}

\* The classes the patterns of the source repeat with * or +.
InClass(class, x) ==
    CASE class = "space" -> IsSpace(x)              \* \s
      [] class = "nonspace" -> ~IsSpace(x)          \* what split(/\s+/) keeps
      [] class = "type" -> IsTypeChar(x)            \* [\w<>\[\]]
      [] class = "param" -> x # ")"                 \* [^)]
      [] class = "token" -> IsTokenChar(x)          \* [a-zA-Z0-9_]
      [] class = "blank" -> x \in {WS, NL}          \* \s in a text of several lines

RECURSIVE SkipWhile(_, _, _)
\* The first position at or after p whose element is not of the class
\* (Len(s) + 1 when there is none): the end of a greedy run.
SkipWhile(class, s, p) ==
    IF p <= Len(s) /\ InClass(class, s[p]) THEN SkipWhile(class, s, p + 1) ELSE p

RECURSIVE StripTags(_)
\* .replace(/<[^>]*>/g, ''): every "<" up to the next ">" is removed; a "<"
\* with no ">" after it stays.
StripTags(s) ==
    IF s = <<>> THEN <<>>
    ELSE IF Head(s) = "<" /\ \E k \in 2..Len(s) : s[k] = ">"
         THEN LET close == CHOOSE k \in 2..Len(s) :
                               s[k] = ">" /\ \A j \in 2..(k - 1) : s[j] # ">"
              IN  StripTags(From(s, close + 1))
         ELSE <<Head(s)>> \o StripTags(Tail(s))

\* line.replace(/^\/{2,3}\s*/, '').replace(/<[^>]*>/g, '').trim()
CommentText(line) ==
    Trim(StripTags(From(line, SkipWhile("space", line, 2))))

RECURSIVE Split(_, _)
\* String.prototype.split on a one-lexeme separator.
Split(s, sep) ==
    IF \E k \in 1..Len(s) : s[k] = sep
    THEN LET at == CHOOSE k \in 1..Len(s) : s[k] = sep /\ \A j \in 1..(k - 1) : s[j] # sep
         IN  <<SubSeq(s, 1, at - 1)>> \o Split(From(s, at + 1), sep)
    ELSE <<s>>

RECURSIVE SplitSpaces(_)
\* p.split(/\s+/) of a trimmed, non-empty p: the maximal blank-free runs.
SplitSpaces(s) ==
    LET stop == SkipWhile("nonspace", s, 1)
        next == SkipWhile("space", s, stop)
    IN  IF stop > Len(s) THEN <<s>>
        ELSE <<SubSeq(s, 1, stop - 1)>> \o SplitSpaces(From(s, next))

RECURSIVE SelectNonEmpty(_)
\* .filter(p => p)
SelectNonEmpty(parts) ==
    IF parts = <<>> THEN <<>>
    ELSE IF Head(parts) = <<>> THEN SelectNonEmpty(Tail(parts))
    ELSE <<Head(parts)>> \o SelectNonEmpty(Tail(parts))

\* One parameter: type is the second-to-last blank-separated part, or
\* 'object' when there is only one; name is the last.
ParseParameter(p) ==
    LET parts == SplitSpaces(p)
    IN  [type |-> IF Len(parts) > 1 THEN parts[Len(parts) - 1] ELSE <<"object">>,
         name |-> parts[Len(parts)]]

\* params.split(',').map(p => p.trim()).filter(p => p).map(...)
ParseParameters(params) ==
    LET raw == Split(params, ",")
        trimmed == [k \in 1..Len(raw) |-> Trim(raw[k])]
        kept == SelectNonEmpty(trimmed)
    IN  [k \in 1..Len(kept) |-> ParseParameter(kept[k])]

NoMatch == [matched |-> FALSE]

\* (?<returnType>[\w<>\[\]]+)\s+(?<name>\w+)\s*\((?<params>[^)]*)\) from
\* position p of line.  Each run is greedy; giving back part of a run never
\* helps, because what follows a shorter run is a lexeme of the run itself.
MatchFrom(line, p) ==
    LET typeEnd == SkipWhile("type", line, p)
        nameAt == SkipWhile("space", line, typeEnd)
        open == SkipWhile("space", line, nameAt + 1)
        close == SkipWhile("param", line, open + 1)
    IN  IF /\ typeEnd > p
           /\ nameAt > typeEnd
           /\ nameAt <= Len(line) /\ IsWord(line[nameAt])
           /\ open <= Len(line) /\ line[open] = "("
           /\ close <= Len(line)
        THEN [matched |-> TRUE,
              returnType |-> SubSeq(line, p, typeEnd - 1),
              name |-> line[nameAt],
              params |-> SubSeq(line, open + 1, close - 1)]
        ELSE NoMatch

\* The signature pattern without its optional (?:static\s+)? group.
MatchSignatureNoStatic(line) ==
    LET afterPublic == SkipWhile("space", line, 2)
    IN  IF line = <<>> \/ Head(line) # "public" \/ afterPublic = 2 THEN NoMatch
        ELSE MatchFrom(line, afterPublic)

\* /^public\s+(?:static\s+)?(?<returnType>...)...\)/ : the optional group
\* is tried first; when the rest fails after it, the match is retried with
\* the group left out (then "static" is read as the return type).
MatchSignature(line) ==
    LET afterPublic == SkipWhile("space", line, 2)
        afterStatic == SkipWhile("space", line, afterPublic + 1)
        withStatic ==
            IF /\ afterPublic <= Len(line) /\ line[afterPublic] = "static"
               /\ afterStatic > afterPublic + 1
            THEN MatchFrom(line, afterStatic)
            ELSE NoMatch
    IN  IF line = <<>> \/ Head(line) # "public" \/ afterPublic = 2 THEN NoMatch
        ELSE IF withStatic.matched THEN withStatic
        ELSE MatchFrom(line, afterPublic)

\* The lines after which pending comments are kept although the line is no
\* signature: using / namespace / class / { / }.
KeepsComments(line) ==
    \/ StartsWith(line, "using") \/ StartsWith(line, "namespace")
    \/ StartsWith(line, "class") \/ StartsWith(line, "{") \/ StartsWith(line, "}")

\* The body of the for loop for one line: st holds the locals
\* currentComments and functions.
ScanLine(st, rawLine) ==
    LET line == Trim(rawLine)
        m == MatchSignature(line)
    IN  IF StartsWith(line, "///") \/ StartsWith(line, "//")
        THEN [st EXCEPT !.currentComments =
                 IF CommentText(line) # <<>> THEN Append(@, CommentText(line)) ELSE @]
        ELSE IF StartsWith(line, "[") \/ line = <<>>
        THEN st
        ELSE IF m.matched
        THEN [currentComments |-> <<>>,
              functions |-> Append(st.functions,
                  [name |-> m.name,
                   returnType |-> m.returnType,
                   parameters |-> ParseParameters(m.params),
                   description |-> Join(st.currentComments, <<WS>>)])]
        ELSE IF ~KeepsComments(line)
        THEN [st EXCEPT !.currentComments = <<>>]
        ELSE st

RECURSIVE ScanFrom(_, _)
ScanFrom(st, rest) ==
    IF rest = <<>> THEN st ELSE ScanFrom(ScanLine(st, Head(rest)), Tail(rest))

\* parseCodeFunctions(code), the code given as its lines (code.split('\n')).
parseCodeFunctions(codeLines) ==
    ScanFrom([currentComments |-> <<>>, functions |-> <<>>], codeLines).functions

---------------------------------------------------------------------------
(* Condition validator: validateExpression                                 *)
(*                                                                         *)
(* A condition text is a sequence of characters.  A variable name is the  *)
(* sequence of its characters.                                             *)

\* variables.find(v => v.name === name): the first variable of that name,
\* Null when there is none.
Find(variables, name) ==
    IF \E k \in 1..Len(variables) : variables[k].name = name
    THEN variables[CHOOSE k \in 1..Len(variables) :
                       /\ variables[k].name = name
                       /\ \A j \in 1..(k - 1) : variables[j].name # name]
    ELSE Null

\* \{([a-zA-Z0-9_]+)\} at position p: the name and the position after "}".
MatchToken(text, p) ==
    LET nameEnd == SkipWhile("token", text, p + 1)
    IN  IF /\ p <= Len(text) /\ text[p] = "{"
           /\ nameEnd > p + 1
           /\ nameEnd <= Len(text) /\ text[nameEnd] = "}"
        THEN [matched |-> TRUE, name |-> SubSeq(text, p + 1, nameEnd - 1), end |-> nameEnd + 1]
        ELSE NoMatch

\* /\{([a-zA-Z0-9_]+)\}\s*=(?!=)\s*(?:\{([a-zA-Z0-9_]+)\}|[^=])/ matched at
\* position p.  The blanks after "=" may be given back one by one until the
\* last alternative finds a token or a character other than "=".
AssignmentAt(text, p) ==
    LET tok == MatchToken(text, p)
        eq == SkipWhile("space", text, tok.end)
        blanksEnd == SkipWhile("space", text, eq + 1)
    IN  /\ tok.matched
        /\ eq <= Len(text) /\ text[eq] = "="
        /\ ~(eq + 1 <= Len(text) /\ text[eq + 1] = "=")
        /\ \E r \in (eq + 1)..blanksEnd :
               \/ MatchToken(text, r).matched
               \/ r <= Len(text) /\ text[r] # "="

\* assignmentRegex.test(text)
HasAssignment(text) == \E p \in 1..Len(text) : AssignmentAt(text, p)

RECURSIVE ReplaceAssignments(_)
\* text.replace(/([^=])=([^=])/g, '$1==$2'): left to right, a match consumes
\* its three characters.
ReplaceAssignments(text) ==
    IF text = <<>> THEN <<>>
    ELSE IF Len(text) >= 3 /\ text[1] # "=" /\ text[2] = "=" /\ text[3] # "="
         THEN <<text[1], "=", "=", text[3]>> \o ReplaceAssignments(From(text, 4))
         ELSE <<Head(text)>> \o ReplaceAssignments(Tail(text))

\* (==|!=|===|!==|>|<|>=|<=), in the order the alternatives are tried.
Operators ==
    << <<"=", "=">>, <<"!", "=">>, <<"=", "=", "=">>, <<"!", "=", "=">>,
       <<">">>, <<"<">>, <<">", "=">>, <<"<", "=">> >>

\* text has the characters of word at position p.
HasAt(text, p, word) ==
    /\ p + Len(word) - 1 <= Len(text)
    /\ SubSeq(text, p, p + Len(word) - 1) = word

RECURSIVE OperatorAt(_, _, _)
\* (==|!=|===|!==|>|<|>=|<=)\s*\{(..)\} at position opAt, alternatives k,
\* k + 1, ... tried in turn: the first after which blanks and a token follow.
OperatorAt(text, opAt, k) ==
    LET right == MatchToken(text, SkipWhile("space", text, opAt + Len(Operators[k])))
    IN  IF k > Len(Operators) THEN NoMatch
        ELSE IF HasAt(text, opAt, Operators[k]) /\ right.matched
        THEN [matched |-> TRUE, operator |-> Operators[k],
              v2Name |-> right.name, end |-> right.end]
        ELSE OperatorAt(text, opAt, k + 1)

\* /\{(..)\}\s*(==|!=|===|!==|>|<|>=|<=)\s*\{(..)\}/ matched at position p.
BinaryAt(text, p) ==
    LET tok == MatchToken(text, p)
        rest == OperatorAt(text, SkipWhile("space", text, tok.end), 1)
    IN  IF tok.matched /\ rest.matched
        THEN [matched |-> TRUE, v1Name |-> tok.name, operator |-> rest.operator,
              v2Name |-> rest.v2Name, end |-> rest.end]
        ELSE NoMatch

RECURSIVE ExecBinary(_, _)
\* binaryRegex.exec(text) with lastIndex = from - 1: the leftmost match
\* that starts at or after from.
ExecBinary(text, from) ==
    LET here == BinaryAt(text, from)
    IN  IF from > Len(text) THEN NoMatch
        ELSE IF here.matched THEN here
        ELSE ExecBinary(text, from + 1)

RECURSIVE BinaryMismatch(_, _, _)
\* The while loop over the comparisons: the result returned from inside
\* the loop, Null when the loop runs to its end.  The next search starts
\* where the previous match ended.
BinaryMismatch(text, from, variables) ==
    LET match == ExecBinary(text, from)
        v1 == Find(variables, match.v1Name)
        v2 == Find(variables, match.v2Name)
    IN  IF ~match.matched THEN Null
        ELSE IF v1 # Null /\ v2 # Null /\ ~checkTypeCompatibility(v1.type, v2.type)
        THEN [isValid |-> FALSE,
              message |-> [template |-> "TypeMismatch",
                           type1 |-> v1.type, name1 |-> match.v1Name,
                           type2 |-> v2.type, name2 |-> match.v2Name]]
        ELSE BinaryMismatch(text, match.end, variables)

\* /^\s*\{([a-zA-Z0-9_]+)\}\s*$/
MatchSingleVar(text) ==
    LET tok == MatchToken(text, SkipWhile("space", text, 1))
    IN  IF tok.matched /\ SkipWhile("space", text, tok.end) > Len(text)
        THEN tok ELSE NoMatch

Token(name) == <<"{">> \o name \o <<"}">>

\* The suggestion of the boolean check with float left out of the numeric
\* types.
BooleanSuggestionNoFloat(type, vName) ==
    IF type = "string"
    THEN <<"!string.IsNullOrEmpty(">> \o Token(vName) \o <<")">>
    ELSE IF type = "number" \/ type = "integer"
    THEN Token(vName) \o <<" ", "!", "=", " ", "0">>
    ELSE Token(vName) \o <<" ", "!", "=", " ", "null">>

\* The suggestion of the boolean check for a variable of type type.
BooleanSuggestion(type, vName) ==
    IF type = "string"
    THEN <<"!string.IsNullOrEmpty(">> \o Token(vName) \o <<")">>
    ELSE IF type = "number" \/ type = "integer" \/ type = "float"
    THEN Token(vName) \o <<" ", "!", "=", " ", "0">>
    ELSE Token(vName) \o <<" ", "!", "=", " ", "null">>

\* The single boolean check, Null when it does not apply.
SingleBoolean(text, variables) ==
    LET singleMatch == MatchSingleVar(text)
        v == Find(variables, singleMatch.name)
    IN  IF singleMatch.matched /\ v # Null /\ v.type # "boolean"
        THEN [isValid |-> FALSE,
              message |-> [template |-> "NotBoolean", name |-> singleMatch.name,
                           type |-> v.type],
              suggestion |-> BooleanSuggestion(v.type, singleMatch.name),
              targetVar |-> singleMatch.name]
        ELSE Null

\* validateExpression with the comparison loop run before the assignment
\* check.
validateExpressionBinaryFirst(text, variables) ==
    IF text = <<>> THEN Null
    ELSE IF BinaryMismatch(text, 1, variables) # Null
    THEN BinaryMismatch(text, 1, variables)
    ELSE IF HasAssignment(text)
    THEN [isValid |-> FALSE,
          message |-> [template |-> "Assignment"],
          suggestion |-> ReplaceAssignments(text)]
    ELSE SingleBoolean(text, variables)

\* validateExpression(text) with the variables prop of the panel.  A key
\* that is undefined in the returned object is absent from the record.
validateExpression(text, variables) ==
    IF text = <<>> THEN Null
    ELSE IF HasAssignment(text)
    THEN [isValid |-> FALSE,
          message |-> [template |-> "Assignment"],
          suggestion |-> ReplaceAssignments(text)]
    ELSE LET mismatch == BinaryMismatch(text, 1, variables)
         IN  IF mismatch # Null THEN mismatch ELSE SingleBoolean(text, variables)

---------------------------------------------------------------------------
(* Call-site validator: validateFunctionParams                             *)

\* mapCSharpTypeToFlowType with the case 'decimal' left out of the switch.
mapCSharpTypeNoDecimal(csType) ==
    IF csType \in {<<"int">>, <<"float">>, <<"double">>,
                   <<"long">>, <<"short">>, <<"byte">>} THEN "number"
    ELSE IF csType = <<"string">> THEN "string"
    ELSE IF csType = <<"bool">> THEN "boolean"
    ELSE IF csType = <<"DateTime">> THEN "datetime"
    ELSE IF csType \in {<<"object">>, <<"dynamic">>} THEN "object"
    ELSE "object"

\* mapCSharpTypeToFlowType; a C# type is the lexemes of the parsed
\* parameter type.
mapCSharpTypeToFlowType(csType) ==
    IF csType \in {<<"int">>, <<"float">>, <<"double">>, <<"decimal">>,
                   <<"long">>, <<"short">>, <<"byte">>} THEN "number"
    ELSE IF csType = <<"string">> THEN "string"
    ELSE IF csType = <<"bool">> THEN "boolean"
    ELSE IF csType = <<"DateTime">> THEN "datetime"
    ELSE IF csType \in {<<"object">>, <<"dynamic">>} THEN "object"
    ELSE "object"

\* /^\{([a-zA-Z0-9_]+)\}$/
MatchWholeToken(val) ==
    LET tok == MatchToken(val, 1)
    IN  IF tok.matched /\ tok.end = Len(val) + 1 THEN tok ELSE NoMatch

\* parameterValues[name]; a missing key reads as undefined, which the
\* caller treats like the empty text.
ValueOf(pvals, name) == IF name \in DOMAIN pvals THEN pvals[name] ELSE <<>>

\* The finding for one parameter, Null when the parameter passes.
ParamFinding(param, pvals, variables) ==
    LET val == ValueOf(pvals, param.name)
        match == MatchWholeToken(val)
        variable == Find(variables, match.name)
        expectedFlowType == mapCSharpTypeToFlowType(param.type)
    IN  IF val = <<>> THEN Null
        ELSE IF match.matched /\ variable # Null
                /\ ~checkTypeCompatibility(variable.type, expectedFlowType)
        THEN [template |-> "ParamType", param |-> param.name,
              expected |-> expectedFlowType, csType |-> param.type,
              variable |-> variable.name, actual |-> variable.type]
        ELSE Null

RECURSIVE FirstFinding(_, _, _)
\* The for loop over the parameters: it returns at the first finding.
FirstFinding(params, pvals, variables) ==
    LET finding == ParamFinding(Head(params), pvals, variables)
    IN  IF params = <<>> THEN Null
        ELSE IF finding # Null THEN finding
        ELSE FirstFinding(Tail(params), pvals, variables)

\* validateFunctionParams(): string | null
validateFunctionParams(fn, pvals, variables) ==
    IF fn = Null THEN Null ELSE FirstFinding(fn.parameters, pvals, variables)

\* codeFiles.find(f => f.id === id)?.functions.find(f => f.name === name)
SelectedFunction(files, fileId, fnName) ==
    LET byId == {k \in 1..Len(files) : files[k].id = fileId}
        file == files[CHOOSE k \in byId : \A j \in byId : k <= j]
        byName == {k \in 1..Len(file.functions) : file.functions[k].name = fnName}
    IN  IF byId = {} \/ byName = {} THEN Null
        ELSE file.functions[CHOOSE k \in byName : \A j \in byName : k <= j]

\* The variables prop of NodeConfigPanel:
\* [...projectVariables, ...flows[activeFlowId].variables]
PanelVariables(globals, locals) == globals \o locals

\* The validation effect of NodeConfigPanel: the value it stores in
\* validationResult.
ValidationOutcome(nt, desc, loopCond, fn, pvals, variables) ==
    LET paramError == validateFunctionParams(fn, pvals, variables)
    IN  IF nt \in {"decision", "loop"}
        THEN validateExpression(IF nt = "decision" THEN desc ELSE loopCond, variables)
        ELSE IF nt = "functionCall" /\ paramError # Null
        THEN [isValid |-> FALSE, message |-> paramError]
        ELSE Null

\* The validation effect (useEffect on description, loopCondition,
\* node.type, variables, parameterValues, selectedFunction).
ValidationEffect ==
    /\ pc = "render"
    /\ validationResult' =
           ValidationOutcome(nodeType, description, loopCondition,
               SelectedFunction(codeFiles, selectedCodeFileId, selectedFunctionName),
               parameterValues, PanelVariables(projectVariables, localVariables))
    /\ pc' = "idle"
    /\ UNCHANGED <<typeVars, parserVars, editorVars, shellVars, formVars>>

\* An event is handled once the effects of the last render have run; the
\* state it sets causes a render, whose effect is then pending.
Rendered ==
    /\ pc = "idle"
    /\ pc' = "render"
    /\ UNCHANGED validationResult

---------------------------------------------------------------------------
(* The project a new editor starts with (constants.ts, FlowEditorInner).   *)

\* The data of a node that has a label only: a field that is undefined or ''
\* in the source holds the empty value of its kind here, and error holds Null.
LabelOnly(text) ==
    [label |-> <<text>>, description |-> <<>>, code |-> <<>>, loopCondition |-> <<>>,
     subFlowId |-> "", codeFileId |-> "", functionName |-> "", parameterValues |-> <<>>,
     error |-> Null]

\* INITIAL_NODES: position and duration are left out, the labels are
\* written in English.
INITIAL_NODES ==
    << [id |-> "1", type |-> "start", data |-> LabelOnly("Start")],
       [id |-> "2", type |-> "code",
        data |-> [LabelOnly("Initialize data (C#)") EXCEPT !.code = <<"return", " ", "a", ";">>]],
       [id |-> "3", type |-> "delay", data |-> LabelOnly("Wait for response")],
       [id |-> "4", type |-> "decision", data |-> LabelOnly("Users > 5?")],
       [id |-> "5", type |-> "log",
        data |-> [LabelOnly("Log high traffic") EXCEPT !.description = <<"t">>]],
       [id |-> "6", type |-> "end", data |-> LabelOnly("End")] >>

\* INITIAL_VARIABLES (constants.ts), 'userCount' written a and 'status' b.
INITIAL_VARIABLES ==
    << [name |-> <<"a">>, type |-> "number"], [name |-> <<"b">>, type |-> "string"] >>

\* The entry 'main' of the initial flow store, holding the given nodes and
\* local variables.
MainFlow(stored, variables) ==
    [key |-> "main", id |-> "main", name |-> "Main Flow", nodes |-> stored,
     variables |-> variables]

\* A loop node and a function-call node dropped on the canvas.
LoopNode == [id |-> "loop-1", type |-> "loop", data |-> LabelOnly("loop node")]
CallNode ==
    [id |-> "functionCall-1", type |-> "functionCall", data |-> LabelOnly("functionCall node")]

---------------------------------------------------------------------------
(* Source lines the parser is exercised on, one or more of each kind.     *)

\* Longest text scanned.
MaxLines == 4

DocLine == <<"///", WS, "Adds">>                   \* /// Adds
NoteLine == <<WS, "//", WS, "note">>               \*  // note
TagLine == <<"///", WS, "<", "summary", ">">>      \* /// <summary>
AttrLine == <<"[", "Obsolete", "]">>               \* [Obsolete]
BlankLine == <<>>
AddDecl ==                                         \* public int Add(int a, string b)
    <<"public", WS, "int", WS, "Add", "(", "int", WS, "a", ",", WS, "string", WS, "b", ")">>
LogDecl ==                                         \*   public static void Log(msg) {
    <<WS, WS, "public", WS, "static", WS, "void", WS, "Log", "(", "msg", ")", WS, "{">>
CloseLine == <<WS, "}">>                           \*  }
UsingLine == <<"using", WS, "System", ";">>        \* using System;
CodeLine == <<"return", WS, "x", ";">>             \* return x;

CommentLines == {DocLine, NoteLine, TagLine}
SkippedLines == {AttrLine, BlankLine}
DeclLines == {AddDecl, LogDecl}
LineSamples == CommentLines \cup SkippedLines \cup DeclLines
                   \cup {CloseLine, UsingLine, CodeLine}

\* What each sample is, read off the sample itself.
DeclName(line) == IF line = AddDecl THEN "Add" ELSE "Log"
DocText(line) ==
    IF line = DocLine THEN <<"Adds">> ELSE IF line = NoteLine THEN <<"note">> ELSE <<>>

---------------------------------------------------------------------------
(* Idle values of each component, used by the specifications that do not  *)
(* exercise it.                                                            *)

TypesIdle == varType = "string" /\ expectedType = "string" /\ compatResult = Null
ParserIdle == lines = <<>> /\ i = 1 /\ currentComments = <<>> /\ functions = <<>>

\* The tab bar, the canvas and the outputs as FlowEditorInner constructs them,
\* with the canvas holding canvas and the config panel open on node editing.
ShellWith(canvas, editing) ==
    /\ tabs = <<[id |-> "main", type |-> "flow", title |-> "Main Flow"]>>
    /\ activeTabId = "main"
    /\ activeFlowId = "main"
    /\ nodes = canvas
    /\ editingNode = editing
    /\ codeCursorIndex = 0
    /\ validationIssues = <<>> /\ showCompilerPanel = FALSE
    /\ referenceResults = <<>> /\ showReferencePanel = FALSE
    /\ clock = 1
    /\ past = <<>> /\ future = <<>>
    /\ isRunning = FALSE /\ logs = <<>> /\ abortControllerRef = Null
    /\ aborted = {} /\ pending = {} /\ runs = 0

EditorIdle ==
    /\ projectVariables = <<>>
    /\ flows = <<MainFlow(INITIAL_NODES, INITIAL_VARIABLES)>>
    /\ codeFiles = <<>>
    /\ ShellWith(INITIAL_NODES, Null)

\* The form of the config panel before any node is opened.
FormIdle ==
    /\ label = <<>>
    /\ description = <<>> /\ loopCondition = <<>> /\ subFlowId = "" /\ code = <<>>
    /\ selectedCodeFileId = "" /\ selectedFunctionName = "" /\ parameterValues = <<>>

PanelIdle == nodeType = "" /\ FormIdle /\ validationResult = Null /\ pc = "idle"

---------------------------------------------------------------------------
(* Specification of the type lattice: any pair of types, then the check.  *)

InitTypes ==
    /\ varType \in VariableType
    /\ expectedType \in VariableType
    /\ compatResult = Null
    /\ ParserIdle /\ EditorIdle /\ PanelIdle

CheckTypes ==
    /\ compatResult = Null
    /\ compatResult' = [value |-> checkTypeCompatibility(varType, expectedType)]
    /\ UNCHANGED <<varType, expectedType, parserVars, editorVars, shellVars, panelVars>>

NextTypes == CheckTypes

SpecTypes == InitTypes /\ [][NextTypes]_vars

---------------------------------------------------------------------------
(* Specification of the signature parser: any text of at most MaxLines    *)
(* lines, scanned one line per step.                                       *)

InitParser ==
    /\ lines \in SeqsUpTo(LineSamples, MaxLines)
    /\ i = 1
    /\ currentComments = <<>>
    /\ functions = <<>>
    /\ TypesIdle /\ EditorIdle /\ PanelIdle

\* One iteration of the for loop of parseCodeFunctions.
ScanStep ==
    /\ i <= Len(lines)
    /\ LET st == ScanLine([currentComments |-> currentComments, functions |-> functions],
                          lines[i])
       IN  /\ currentComments' = st.currentComments
           /\ functions' = st.functions
    /\ i' = i + 1
    /\ UNCHANGED <<lines, typeVars, editorVars, shellVars, panelVars>>

NextParser == ScanStep

SpecParser == InitParser /\ [][NextParser]_vars

\* The scan has returned.
ParseDone == i > Len(lines)

RECURSIVE DeclNamesOf(_)
\* The names of the declarations of a text, in source order.
DeclNamesOf(text) ==
    IF text = <<>> THEN <<>>
    ELSE IF Head(text) \in DeclLines THEN <<DeclName(Head(text))>> \o DeclNamesOf(Tail(text))
    ELSE DeclNamesOf(Tail(text))

RECURSIVE DocBlockBefore(_, _)
\* The texts of the contiguous comment lines that end at line k of text.
DocBlockBefore(text, k) ==
    IF k >= 1 /\ text[k] \in CommentLines
    THEN LET t == DocText(text[k])
         IN  DocBlockBefore(text, k - 1) \o (IF t = <<>> THEN <<>> ELSE <<t>>)
    ELSE <<>>

RECURSIVE LastNonSkipped(_, _)
\* The last line at or before k that is neither blank nor an attribute.
LastNonSkipped(text, k) ==
    IF k >= 1 /\ text[k] \in SkippedLines THEN LastNonSkipped(text, k - 1) ELSE k

\* The documentation the declaration at line k is to carry: the comment
\* block right before it, blank and attribute lines between them allowed.
ExpectedDescription(text, k) ==
    Join(DocBlockBefore(text, LastNonSkipped(text, k - 1)), <<WS>>)

RECURSIVE DeclPositions(_, _)
DeclPositions(text, k) ==
    IF k > Len(text) THEN <<>>
    ELSE (IF text[k] \in DeclLines THEN <<k>> ELSE <<>>) \o DeclPositions(text, k + 1)

\* C2: the description of each callable is the text of the contiguous
\* comment block immediately before its declaration (blank and attribute
\* lines may lie between), and is empty when there is none; a comment that
\* is not immediately followed by a declaration reaches no later callable.
C2_DescriptionIsPrecedingBlock ==
    ParseDone =>
        LET at == DeclPositions(lines, 1)
        IN  \A k \in 1..Len(functions) :
                k <= Len(at) => functions[k].description = ExpectedDescription(lines, at[k])

---------------------------------------------------------------------------
(* Specification of the condition validator: a decision node whose        *)
(* condition is any text of Conditions, any table of variables, then the  *)
(* validation effect.                                                      *)

\* Most comparison operators in one condition.
MaxOps == 2

VarNames == {<<"a">>, <<"b">>}

Operands == {Token(<<"a">>), Token(<<"b">>), <<"5">>}
OperatorTexts ==
    { <<" ", "=", " ">>, <<"=", "=">>, <<" ", ">", "=", " ">>, <<" ", "<", " ">> }

RECURSIVE Chains(_)
\* operand (operator operand)^k for k <= n
Chains(n) ==
    IF n = 0 THEN Operands
    ELSE LET shorter == Chains(n - 1)
         IN  shorter \cup {c \o op \o x : c \in shorter, op \in OperatorTexts, x \in Operands}

Conditions ==
    Chains(MaxOps) \cup {<<>>, <<" ">> \o Token(<<"a">>) \o <<" ">>}

\* The variables a table may hold: at most one per name.
VarTables ==
    LET Choice == VariableType \cup {"none"}
        Entry(n, t) == IF t = "none" THEN <<>>
                       ELSE <<[name |-> n, type |-> t]>>
    IN  {Entry(<<"a">>, ta) \o Entry(<<"b">>, tb) : ta \in Choice, tb \in Choice}

InitExpr ==
    /\ nodeType = "decision"
    /\ description \in Conditions
    /\ label = <<>>
    /\ loopCondition = <<>> /\ subFlowId = "" /\ code = <<>>
    /\ projectVariables \in VarTables
    /\ flows = <<MainFlow(INITIAL_NODES, <<>>)>>
    /\ codeFiles = <<>>
    /\ ShellWith(INITIAL_NODES, "4")
    /\ selectedCodeFileId = "" /\ selectedFunctionName = "" /\ parameterValues = <<>>
    /\ validationResult = Null
    /\ pc = "render"
    /\ TypesIdle /\ ParserIdle

NextExpr == ValidationEffect

SpecExpr == InitExpr /\ [][NextExpr]_vars

---------------------------------------------------------------------------
(* Specification of the call-site validator: a function-call node bound   *)
(* to a function of a parsed code file, any argument texts, any table of  *)
(* variables, then the validation effect.                                  *)

\* The code file the node calls into.
CallFile ==
    [id |-> "code-1", name |-> "Script1.cs", refs |-> <<>>,
     content |-> <<DocLine, AddDecl, CloseLine, LogDecl>>,
     functions |-> parseCodeFunctions(<<DocLine, AddDecl, CloseLine, LogDecl>>)]

\* A second file, whose functions take parameters of the other C# types.
CheckDecl ==                                       \* public bool Check(DateTime a, bool b)
    <<"public", WS, "bool", WS, "Check", "(", "DateTime", WS, "a", ",", WS, "bool", WS, "b", ")">>
MixDecl ==                                         \* public double Mix(float a, double b)
    <<"public", WS, "double", WS, "Mix", "(", "float", WS, "a", ",", WS, "double", WS, "b", ")">>
SumDecl ==                                         \* public static long Sum(decimal a, long b)
    <<"public", WS, "static", WS, "long", WS, "Sum", "(", "decimal", WS, "a", ",", WS,
      "long", WS, "b", ")">>
PackDecl ==                                        \* public byte Pack(short a, byte b)
    <<"public", WS, "byte", WS, "Pack", "(", "short", WS, "a", ",", WS, "byte", WS, "b", ")">>
PutDecl ==                                         \* public void Put(dynamic a, Point b)
    <<"public", WS, "void", WS, "Put", "(", "dynamic", WS, "a", ",", WS, "Point", WS, "b", ")">>

TypesFile ==
    [id |-> "code-2", name |-> "Script2.cs", refs |-> <<>>,
     content |-> <<CheckDecl, MixDecl, SumDecl, PackDecl, PutDecl>>,
     functions |-> parseCodeFunctions(<<CheckDecl, MixDecl, SumDecl, PackDecl, PutDecl>>)]

\* The functions a call node of this specification may be bound to.
CallTargets ==
    {<<"code-1", "Add">>, <<"code-1", "Log">>, <<"code-2", "Check">>, <<"code-2", "Mix">>,
     <<"code-2", "Sum">>, <<"code-2", "Pack">>, <<"code-2", "Put">>}

ArgumentTexts ==
    {<<>>, Token(<<"a">>), Token(<<"b">>), <<"5">>, <<" ">> \o Token(<<"a">>),
     Token(<<"a">>) \o Token(<<"b">>)}

ParamNames(fn) == {fn.parameters[k].name : k \in 1..Len(fn.parameters)}

InitCall ==
    /\ nodeType = "functionCall"
    /\ label = <<>>
    /\ description = <<>> /\ loopCondition = <<>> /\ subFlowId = "" /\ code = <<>>
    /\ codeFiles = <<CallFile, TypesFile>>
    /\ \E target \in CallTargets :
           selectedCodeFileId = target[1] /\ selectedFunctionName = target[2]
    /\ \E keys \in SUBSET ParamNames(SelectedFunction(codeFiles, selectedCodeFileId,
                                                       selectedFunctionName)) :
           parameterValues \in [keys -> ArgumentTexts]
    /\ projectVariables \in VarTables
    /\ flows = <<MainFlow(INITIAL_NODES \o <<CallNode>>, <<>>)>>
    /\ ShellWith(INITIAL_NODES \o <<CallNode>>, CallNode.id)
    /\ validationResult = Null
    /\ pc = "render"
    /\ TypesIdle /\ ParserIdle

NextCall == ValidationEffect

SpecCall == InitCall /\ [][NextCall]_vars

---------------------------------------------------------------------------
(* Specification of the editor session: the variable panel and the config *)
(* panel of a decision or loop node.  A handler changes the state and     *)
(* causes a render; the validation effect of that render runs before the  *)
(* next event is handled.                                                  *)

\* Types offered when a variable is added in this session.
SessionTypes == {"string", "number", "boolean", "Point"}

\* Condition texts typed in this session.
SessionTexts ==
    {<<>>, Token(<<"a">>), Token(<<"a">>) \o <<" ", "=", " ">> \o Token(<<"b">>),
     Token(<<"a">>) \o <<"=", "=">> \o Token(<<"b">>)}

\* /^[a-zA-Z_][a-zA-Z0-9_]*$/
isValidName(name) ==
    /\ name # <<>>
    /\ Head(name) \in Letters \cup {"_"}
    /\ \A k \in 1..Len(name) : IsTokenChar(name[k])

Init ==
    /\ projectVariables = <<>>
    /\ flows = <<MainFlow(INITIAL_NODES \o <<LoopNode>>, INITIAL_VARIABLES)>>
    /\ codeFiles = <<>>
    /\ nodeType \in {"decision", "loop"}
    /\ ShellWith(INITIAL_NODES \o <<LoopNode>>,
                 IF nodeType = "decision" THEN "4" ELSE LoopNode.id)
    /\ label = <<>>
    /\ description = <<>> /\ loopCondition = <<>> /\ subFlowId = "" /\ code = <<>>
    /\ selectedCodeFileId = "" /\ selectedFunctionName = "" /\ parameterValues = <<>>
    /\ validationResult = Null
    /\ pc = "render"
    /\ TypesIdle /\ ParserIdle

\* The setVariables prop of VariablePanel: the flow store with list as the
\* local variables of the active flow.
setVariables(list) ==
    [k \in 1..Len(flows) |->
        IF flows[k].key = activeFlowId THEN [flows[k] EXCEPT !.variables = list] ELSE flows[k]]

\* handleAddVariable(isGlobal) with newVarName = name, newVarType = type.
\* A name that is empty, malformed or taken in the target list only sets
\* the error text of the panel.
handleAddVariable(isGlobal, name, type) ==
    LET targetList == IF isGlobal THEN projectVariables ELSE localVariables
        newVar == [name |-> name, type |-> type]
    IN  /\ name # <<>>
        /\ isValidName(name)
        /\ ~\E k \in 1..Len(targetList) : targetList[k].name = name
        /\ IF isGlobal
           THEN projectVariables' = Append(targetList, newVar) /\ UNCHANGED flows
           ELSE flows' = setVariables(Append(targetList, newVar))
                    /\ UNCHANGED projectVariables
        /\ UNCHANGED <<codeFiles, shellVars, formVars, typeVars, parserVars>>
        /\ Rendered

Without(list, k) == SubSeq(list, 1, k - 1) \o SubSeq(list, k + 1, Len(list))

\* handleDeleteVariable(id, isGlobal), id the id of the k-th variable.
handleDeleteVariable(isGlobal, k) ==
    /\ IF isGlobal
       THEN /\ k \in 1..Len(projectVariables)
            /\ projectVariables' = Without(projectVariables, k)
            /\ UNCHANGED flows
       ELSE /\ k \in 1..Len(localVariables)
            /\ flows' = setVariables(Without(localVariables, k))
            /\ UNCHANGED projectVariables
    /\ UNCHANGED <<codeFiles, shellVars, formVars, typeVars, parserVars>>
    /\ Rendered

\* The condition field of a decision node: onChange={setDescription}
setDescription(text) ==
    /\ nodeType = "decision"
    /\ description' = text
    /\ UNCHANGED <<nodeType, label, loopCondition, subFlowId, code, selectedCodeFileId,
                   selectedFunctionName, parameterValues, editorVars, shellVars,
                   typeVars, parserVars>>
    /\ Rendered

\* The condition field of a loop node: onChange={setLoopCondition}
setLoopCondition(text) ==
    /\ nodeType = "loop"
    /\ loopCondition' = text
    /\ UNCHANGED <<nodeType, label, description, subFlowId, code, selectedCodeFileId,
                   selectedFunctionName, parameterValues, editorVars, shellVars,
                   typeVars, parserVars>>
    /\ Rendered

\* applyFix with the suggestion written to the description of a loop node
\* too.
applyFixDescription ==
    /\ validationResult # Null
    /\ "suggestion" \in DOMAIN validationResult
    /\ IF nodeType \in {"decision", "loop"}
       THEN description' = validationResult.suggestion /\ UNCHANGED loopCondition
       ELSE UNCHANGED <<description, loopCondition>>
    /\ UNCHANGED <<nodeType, label, subFlowId, code, selectedCodeFileId, selectedFunctionName,
                   parameterValues, editorVars, shellVars, typeVars, parserVars>>
    /\ Rendered

\* applyFix: the suggestion replaces the condition of the node.
applyFix ==
    /\ validationResult # Null
    /\ "suggestion" \in DOMAIN validationResult
    /\ IF nodeType = "decision"
       THEN description' = validationResult.suggestion /\ UNCHANGED loopCondition
       ELSE IF nodeType = "loop"
       THEN loopCondition' = validationResult.suggestion /\ UNCHANGED description
       ELSE UNCHANGED <<description, loopCondition>>
    /\ UNCHANGED <<nodeType, label, subFlowId, code, selectedCodeFileId, selectedFunctionName,
                   parameterValues, editorVars, shellVars, typeVars, parserVars>>
    /\ Rendered

Next ==
    \/ \E g \in BOOLEAN, n \in VarNames, t \in SessionTypes : handleAddVariable(g, n, t)
    \/ \E g \in BOOLEAN, k \in 1..2 : handleDeleteVariable(g, k)
    \/ \E text \in SessionTexts : setDescription(text)
    \/ \E text \in SessionTexts : setLoopCondition(text)
    \/ applyFix
    \/ ValidationEffect

Spec == Init /\ [][Next]_vars

---------------------------------------------------------------------------
(* Properties of the type lattice, under SpecTypes.                        *)

\* The check has returned.
Checked == compatResult # Null

\* C3: every ordered pair of types of the numeric family {integer, float,
\* number} is compatible, integer with float in both directions included.
C3_NumericFamilyCompatible ==
    Checked /\ varType \in numberTypes /\ expectedType \in numberTypes
        => compatResult.value = TRUE

\* C4: for a pair of types that are not both numeric the check returns true
\* exactly when the two are the same type or one of them is object.
C4_OutsideNumericFamily ==
    Checked /\ ~(varType \in numberTypes /\ expectedType \in numberTypes)
        => (compatResult.value <=>
                (varType = expectedType \/ varType = "object" \/ expectedType = "object"))

\* string against boolean has been checked and found incompatible.
C4_Witness ==
    Checked /\ varType = "string" /\ expectedType = "boolean" /\ compatResult.value = FALSE

---------------------------------------------------------------------------
(* Properties of the condition validator.                                  *)

\* The validation effect has run on the fields on display.
Settled == pc = "idle"

\* The condition on display.
Condition == IF nodeType = "loop" THEN loopCondition ELSE description

\* Position p of text holds a '=' that is part of no '==', '!=', '>=', '<='.
SingleEqualsAt(text, p) ==
    /\ text[p] = "="
    /\ ~(p > 1 /\ text[p - 1] \in {"=", "!", ">", "<"})
    /\ ~(p < Len(text) /\ text[p + 1] = "=")

\* The last position before p that holds no blank (0 when there is none).
RECURSIVE LastNonBlankBefore(_, _)
LastNonBlankBefore(text, p) ==
    IF p > 1 /\ text[p - 1] = " " THEN LastNonBlankBefore(text, p - 1) ELSE p - 1

\* text has a single '=' with an interpolation token on its left and a token
\* or a literal on its right.
AssignsToToken(text) ==
    \E p \in 2..(Len(text) - 1) :
        /\ SingleEqualsAt(text, p)
        /\ LastNonBlankBefore(text, p) >= 1
        /\ text[LastNonBlankBefore(text, p)] = "}"

RECURSIVE DoubledFrom(_, _)
\* text from position p on, every single '=' written '==' and every other
\* character as it is.
DoubledFrom(text, p) ==
    IF p > Len(text) THEN <<>>
    ELSE (IF SingleEqualsAt(text, p) THEN <<"=", "=">> ELSE <<text[p]>>)
             \o DoubledFrom(text, p + 1)

\* The template of the diagnostic of a validation result, "none" when the
\* condition passed.
TemplateOf(result) == IF result = Null THEN "none" ELSE result.message.template

\* C5: a name that is both a local variable of the active flow and a global
\* variable is resolved to the local variable by every validator lookup:
\* the validation result is the one obtained with the local variables
\* looked up first.
C5_LocalShadowsGlobal ==
    Settled =>
        validationResult =
            ValidationOutcome(nodeType, description, loopCondition,
                SelectedFunction(codeFiles, selectedCodeFileId, selectedFunctionName),
                parameterValues, localVariables \o projectVariables)

\* C6: a condition with a single '=' after a token is reported as an
\* assignment, and the suggestion is the condition with each single '='
\* written '==' and every other character, the operators '==', '!=', '>='
\* and '<=' included, unchanged.
C6_AssignmentFix ==
    Settled /\ AssignsToToken(Condition) =>
        /\ TemplateOf(validationResult) = "Assignment"
        /\ validationResult.isValid = FALSE
        /\ validationResult.suggestion = DoubledFrom(Condition, 1)

\* The comparisons '{a} <op> {b}' of text whose two names resolve to
\* variables of incompatible types, by the position where they start.
Mismatches(text, variables) ==
    {p \in 1..Len(text) :
        LET c == BinaryAt(text, p)
        IN  /\ c.matched
            /\ Find(variables, c.v1Name) # Null
            /\ Find(variables, c.v2Name) # Null
            /\ ~checkTypeCompatibility(Find(variables, c.v1Name).type,
                                       Find(variables, c.v2Name).type)}

\* C7: when any comparison '{a} <op> {b}' of the condition, one that shares
\* a token with the comparison before it included, has operands of
\* incompatible types (and no assignment takes precedence), the result is
\* invalid, names the two types of such a comparison and has no suggestion.
C7_EveryComparisonChecked ==
    LET variables == PanelVariables(projectVariables, localVariables)
        bad == Mismatches(Condition, variables)
    IN  Settled /\ ~AssignsToToken(Condition) /\ bad # {} =>
            /\ TemplateOf(validationResult) = "TypeMismatch"
            /\ validationResult.isValid = FALSE
            /\ "suggestion" \notin DOMAIN validationResult
            /\ \E p \in bad :
                   LET c == BinaryAt(Condition, p)
                   IN  /\ validationResult.message.type1 = Find(variables, c.v1Name).type
                       /\ validationResult.message.type2 = Find(variables, c.v2Name).type

\* The suggestion the boolean check is to make for a variable of a type.
CoercionFor(type, name) ==
    CASE type = "string" -> <<"!string.IsNullOrEmpty(", "{">> \o name \o <<"}", ")">>
      [] type \in {"number", "integer", "float"} ->
             <<"{">> \o name \o <<"}", " ", "!", "=", " ", "0">>
      [] OTHER -> <<"{">> \o name \o <<"}", " ", "!", "=", " ", "null">>

\* C8: when the trimmed condition is exactly one token naming a resolved
\* variable, the result is invalid exactly when the type is not boolean, and
\* the suggestion is the coercion of the type: a non-empty test for string,
\* '!= 0' for number, integer and float, '!= null' for every other type.
C8_BooleanContext ==
    \A n \in VarNames :
        LET v == Find(PanelVariables(projectVariables, localVariables), n)
        IN  Settled /\ Trim(Condition) = Token(n) /\ v # Null =>
                IF v.type = "boolean" THEN validationResult = Null
                ELSE /\ validationResult # Null
                     /\ validationResult.isValid = FALSE
                     /\ validationResult.message.template = "NotBoolean"
                     /\ validationResult.message.type = v.type
                     /\ validationResult.suggestion = CoercionFor(v.type, n)

\* A lone token, blanks around it, naming a datetime variable was rejected
\* with the non-null test.
C8_Witness ==
    /\ Settled
    /\ Condition = <<" ">> \o Token(<<"a">>) \o <<" ">>
    /\ Find(PanelVariables(projectVariables, localVariables), <<"a">>) # Null
    /\ Find(PanelVariables(projectVariables, localVariables), <<"a">>).type = "datetime"
    /\ validationResult # Null
    /\ validationResult.suggestion = CoercionFor("datetime", <<"a">>)

\* The condition is one token naming a variable that is not a boolean.
LoneNonBoolean(text, variables) ==
    \E n \in VarNames :
        /\ Trim(text) = Token(n)
        /\ Find(variables, n) # Null
        /\ Find(variables, n).type # "boolean"

\* C9: the result is at most one diagnostic, chosen in the order assignment,
\* type mismatch, boolean context: an assignment hides every other finding,
\* a type mismatch is reported only without an assignment, a boolean-context
\* finding only without the two others, and a condition none of the checks
\* matches is valid.
C9_Priority ==
    LET variables == PanelVariables(projectVariables, localVariables)
        assigns == AssignsToToken(Condition)
        bad == Mismatches(Condition, variables)
        lone == LoneNonBoolean(Condition, variables)
        template == TemplateOf(validationResult)
    IN  Settled =>
            /\ template \in {"none", "Assignment", "TypeMismatch", "NotBoolean"}
            /\ assigns => template = "Assignment"
            /\ template = "TypeMismatch" => ~assigns /\ bad # {}
            /\ template = "NotBoolean" => ~assigns /\ bad = {} /\ lone
            /\ ~assigns /\ bad = {} /\ ~lone => template = "none"

\* '{a} < {b} = 5' with a a string and b a number holds an assignment and
\* a mismatched comparison; only the assignment was reported.
C9_Witness ==
    /\ Settled
    /\ Condition = Token(<<"a">>) \o <<" ", "<", " ">> \o Token(<<"b">>)
                       \o <<" ", "=", " ", "5">>
    /\ Mismatches(Condition, PanelVariables(projectVariables, localVariables)) # {}
    /\ TemplateOf(validationResult) = "Assignment"

---------------------------------------------------------------------------
(* Properties of the call-site validator, under SpecCall.                  *)

\* The parameters of the selected function whose bound argument is one
\* token naming a variable of a type incompatible with the parameter.
Offenders ==
    LET fn == SelectedFunction(codeFiles, selectedCodeFileId, selectedFunctionName)
    IN  IF fn = Null THEN {}
        ELSE {k \in 1..Len(fn.parameters) :
                 ParamFinding(fn.parameters[k], parameterValues,
                              PanelVariables(projectVariables, localVariables)) # Null}

\* The diagnostics the validation result holds.
DiagnosticCount == IF validationResult = Null THEN 0 ELSE 1

\* C10: with k offending parameters the validator produces k diagnostics,
\* one per offending parameter; an earlier one does not hide a later one.
C10_OneDiagnosticPerOffender ==
    Settled /\ nodeType = "functionCall" => DiagnosticCount = Cardinality(Offenders)

\* The translation of a declared C# parameter type into the variable types.
TranslatedType(csType) ==
    CASE csType \in {<<"int">>, <<"float">>, <<"double">>, <<"decimal">>, <<"long">>,
                     <<"short">>, <<"byte">>} -> "number"
      [] csType = <<"string">> -> "string"
      [] csType = <<"bool">> -> "boolean"
      [] csType = <<"DateTime">> -> "datetime"
      [] OTHER -> "object"

\* Compatibility of a variable type with a translated parameter type: the
\* same type, a numeric type for number, or object on either side.
Compatible(vType, eType) ==
    \/ vType = eType
    \/ eType = "number" /\ vType \in {"number", "integer", "float"}
    \/ vType = "object" \/ eType = "object"

\* The argument bound to param is exactly one token that names a variable
\* whose type is not compatible with the translated type of param.
MistypedArgument(param) ==
    \E n \in VarNames :
        /\ param.name \in DOMAIN parameterValues
        /\ parameterValues[param.name] = <<"{">> \o n \o <<"}">>
        /\ \E k \in 1..Len(projectVariables) :
               /\ projectVariables[k].name = n
               /\ ~Compatible(projectVariables[k].type, TranslatedType(param.type))

---------------------------------------------------------------------------
(* FlowEditor: tabs, flows, canvas, config panel, code files, compile and  *)
(* reference search.                                                       *)

\* Most ids made from the clock (flows, code files, dropped nodes).
MaxIds == 2

\* Date.now() as it is written into an id.
Now == ToString(clock)

\* The session has made fewer than MaxIds ids.
IdsLeft == clock <= MaxIds

\* tabs.find(t => t.id === id), Null when there is none.
FindTab(id) ==
    IF \E k \in 1..Len(tabs) : tabs[k].id = id
    THEN tabs[CHOOSE k \in 1..Len(tabs) : tabs[k].id = id]
    ELSE Null

\* const activeTab = tabs.find(t => t.id === activeTabId)
activeTab == FindTab(activeTabId)

\* The canvas and the panels are rendered: the active tab is a flow tab.
FlowTabActive == activeTab # Null /\ activeTab.type = "flow"

\* The updater of saveCurrentFlowState(targetFlowId) applied to store: the
\* nodes on the canvas (getNodes()) become the stored nodes of the target.
\* When the store has no such key, { ...prev[targetFlowId], nodes, edges }
\* is a new entry with no id, no name and no variables.
saveCurrentFlowState(store, targetFlowId) ==
    IF HasFlow(store, targetFlowId)
    THEN [k \in 1..Len(store) |->
             IF store[k].key = targetFlowId THEN [store[k] EXCEPT !.nodes = nodes]
             ELSE store[k]]
    ELSE Append(store, [key |-> targetFlowId, nodes |-> nodes])

\* The effect of NodeConfigPanel on [node]: the form takes the data of the
\* node and the validation result its attached error.
LoadForm(node) ==
    /\ nodeType' = node.type
    /\ label' = node.data.label
    /\ description' = node.data.description
    /\ code' = node.data.code
    /\ loopCondition' = node.data.loopCondition
    /\ subFlowId' = node.data.subFlowId
    /\ selectedCodeFileId' = node.data.codeFileId
    /\ selectedFunctionName' = node.data.functionName
    /\ parameterValues' = node.data.parameterValues
    /\ validationResult' =
           IF node.data.error # Null THEN [isValid |-> FALSE, message |-> node.data.error]
           ELSE Null
    /\ pc' = "render"

\* NodeConfigPanel is not rendered, or rendered anew with no node: its state
\* is the initial state of its hooks.
NoForm ==
    /\ nodeType' = ""
    /\ label' = <<>>
    /\ description' = <<>> /\ code' = <<>> /\ loopCondition' = <<>> /\ subFlowId' = ""
    /\ selectedCodeFileId' = "" /\ selectedFunctionName' = "" /\ parameterValues' = <<>>
    /\ validationResult' = Null
    /\ pc' = "idle"

\* A handler of FlowEditor that leaves the tab as it is: the panel keeps its
\* state and, when it shows a node, its validation effect runs again on the
\* new props.
PanelKept ==
    /\ UNCHANGED <<formVars, validationResult>>
    /\ pc' = IF nodeType = "" THEN "idle" ELSE "render"

\* The panel after the active tab has become a tab of the given type.
PanelOnSwitch(type) ==
    IF FlowTabActive /\ type = "flow" THEN PanelKept
    ELSE IF type = "flow" /\ editingNode # Null THEN LoadForm(editingNode)
    ELSE NoForm

\* prev.slice(-10)
LastTen(list) == IF Len(list) > 10 THEN SubSeq(list, Len(list) - 9, Len(list)) ELSE list

\* recordHistory: the canvas becomes the newest snapshot of the undo stack,
\* which keeps its last ten snapshots before it, and the redo stack empties.
recordHistory ==
    /\ past' = Append(LastTen(past), nodes)
    /\ future' = <<>>

\* handleSwitchTab(id, type), store being the flow store with the updaters
\* queued before the call applied: flows, activeTabId, activeFlowId and the
\* canvas after it.  The target flow is read from the flows of the render.
handleSwitchTab(id, type, store) ==
    LET leaving == activeFlowId # "" /\ activeTabId # id /\ FlowTabActive
        entering == type = "flow" /\ HasFlow(flows, id)
    IN  /\ flows' = IF leaving THEN saveCurrentFlowState(store, activeTab.id) ELSE store
        /\ activeTabId' = id
        /\ activeFlowId' = IF entering THEN id ELSE activeFlowId
        /\ nodes' = IF entering THEN FlowOf(flows, id).nodes ELSE nodes
        /\ past' = IF entering THEN <<>> ELSE past
        /\ future' = IF entering THEN <<>> ELSE future
        /\ PanelOnSwitch(type)

\* handleOpenTab(id, type, title) without the limit of ten tabs.
handleOpenTabUnlimited(id, type, title, store) ==
    IF FindTab(id) # Null
    THEN tabs' = tabs /\ handleSwitchTab(id, type, store)
    ELSE /\ tabs' = Append(tabs, [id |-> id, type |-> type, title |-> title])
         /\ handleSwitchTab(id, type, store)

\* handleOpenTab(id, type, title)
handleOpenTab(id, type, title, store) ==
    IF FindTab(id) # Null
    THEN tabs' = tabs /\ handleSwitchTab(id, type, store)
    ELSE IF Len(tabs) >= 10
    THEN /\ flows' = store
         /\ UNCHANGED <<tabs, activeTabId, activeFlowId, nodes, histVars>>
         /\ PanelKept
    ELSE /\ tabs' = Append(tabs, [id |-> id, type |-> type, title |-> title])
         /\ handleSwitchTab(id, type, store)

\* handleCloseTab(id) for a tab of the bar.
handleCloseTab(id, store) ==
    LET tabIndex == CHOOSE k \in 1..Len(tabs) : tabs[k].id = id
        newTabs == SubSeq(tabs, 1, tabIndex - 1) \o SubSeq(tabs, tabIndex + 1, Len(tabs))
        nextTab == IF tabIndex <= Len(newTabs) THEN newTabs[tabIndex]
                   ELSE newTabs[tabIndex - 1]
    IN  IF Len(tabs) = 1 /\ id = "main"
        THEN /\ flows' = store
             /\ UNCHANGED <<tabs, activeTabId, activeFlowId, nodes, histVars>>
             /\ PanelKept
        ELSE /\ tabs' = newTabs
             /\ IF activeTabId # id
                THEN /\ flows' = store
                     /\ UNCHANGED <<activeTabId, activeFlowId, nodes, histVars>>
                     /\ PanelKept
                ELSE IF newTabs # <<>>
                THEN handleSwitchTab(nextTab.id, nextTab.type, store)
                ELSE /\ flows' = store
                     /\ activeTabId' = ""
                     /\ UNCHANGED <<activeFlowId, nodes, histVars>>
                     /\ NoForm

\* A click on a tab of the bar: handleSwitchTab(tab.id, tab.type)
ClickTab(k) ==
    /\ pc = "idle"
    /\ k \in 1..Len(tabs)
    /\ handleSwitchTab(tabs[k].id, tabs[k].type, flows)
    /\ UNCHANGED <<tabs, editingNode, codeCursorIndex, runVars, outVars, clock,
                   projectVariables, codeFiles, typeVars, parserVars>>

\* handleAddFlow and handleAddFlowWithName
handleAddFlow ==
    LET name == "Flow " \o ToString(Len(flows) + 1)
        taken == \/ \E k \in 1..Len(flows) : FlowName(flows[k]) = name
                 \/ \E k \in 1..Len(codeFiles) : codeFiles[k].name = name
        newName == IF taken THEN "Flow " \o Now ELSE name
        newId == "flow-" \o Now
        newFlow == [key |-> newId, id |-> newId, name |-> newName, nodes |-> <<>>,
                    variables |-> <<>>]
    IN  /\ pc = "idle"
        /\ clock' = clock + 1
        /\ handleOpenTab(newId, "flow", newName, Append(flows, newFlow))
        /\ UNCHANGED <<editingNode, codeCursorIndex, runVars, outVars,
                       projectVariables, codeFiles, typeVars, parserVars>>

\* onDrop of a palette item of the given type on the canvas.
onDrop(type) ==
    /\ pc = "idle"
    /\ FlowTabActive
    /\ clock' = clock + 1
    /\ nodes' = Append(nodes, [id |-> type \o "-" \o Now, type |-> type,
                               data |-> LabelOnly(type \o " node")])
    /\ recordHistory
    /\ PanelKept
    /\ UNCHANGED <<tabVars, editingNode, codeCursorIndex, runVars, outVars,
                   editorVars, typeVars, parserVars>>

\* onNodeDoubleClick on the k-th node of the canvas: the panel opens on it.
onNodeDoubleClick(k) ==
    /\ pc = "idle"
    /\ FlowTabActive
    /\ k \in 1..Len(nodes)
    /\ editingNode' = nodes[k]
    /\ LoadForm(nodes[k])
    /\ UNCHANGED <<tabVars, nodes, codeCursorIndex, histVars, runVars, outVars, clock,
                   editorVars, typeVars, parserVars>>

\* A field of the open panel is edited.
FieldEdited ==
    /\ pc = "idle"
    /\ FlowTabActive
    /\ editingNode # Null
    /\ pc' = "render"
    /\ UNCHANGED <<nodeType, validationResult, editorVars, shellVars, typeVars, parserVars>>

\* The select of a sub-flow node: onChange={(e) => setSubFlowId(e.target.value)}
setSubFlowId(id) ==
    /\ nodeType = "subflow"
    /\ id = "" \/ HasFlow(flows, id)
    /\ subFlowId' = id
    /\ FieldEdited
    /\ UNCHANGED <<label, description, loopCondition, code, selectedCodeFileId,
                   selectedFunctionName, parameterValues>>

\* The code editor of a code node: onChange={setCode}
setCode(text) ==
    /\ nodeType = "code"
    /\ code' = text
    /\ FieldEdited
    /\ UNCHANGED <<label, description, loopCondition, subFlowId, selectedCodeFileId,
                   selectedFunctionName, parameterValues>>

\* A function is picked in the selector of a function-call node.
selectFunction(f, g) ==
    /\ nodeType = "functionCall"
    /\ f \in 1..Len(codeFiles)
    /\ g \in 1..Len(codeFiles[f].functions)
    /\ selectedCodeFileId' = codeFiles[f].id
    /\ selectedFunctionName' = codeFiles[f].functions[g].name
    /\ parameterValues' = <<>>
    /\ FieldEdited
    /\ UNCHANGED <<label, description, loopCondition, subFlowId, code>>

\* The input of the k-th parameter of the selected function:
\* setParameterValues(prev => ({ ...prev, [param.name]: val }))
setParameterValue(k, val) ==
    LET fn == SelectedFunction(codeFiles, selectedCodeFileId, selectedFunctionName)
        name == fn.parameters[k].name
    IN  /\ nodeType = "functionCall"
        /\ fn # Null
        /\ k \in 1..Len(fn.parameters)
        /\ parameterValues' =
               [n \in DOMAIN parameterValues \cup {name} |->
                   IF n = name THEN val ELSE parameterValues[n]]
        /\ FieldEdited
        /\ UNCHANGED <<label, description, loopCondition, subFlowId, code, selectedCodeFileId,
                       selectedFunctionName>>

\* The condition field of the decision node open in the panel.
typeCondition(text) ==
    /\ nodeType = "decision"
    /\ description' = text
    /\ FieldEdited
    /\ UNCHANGED <<label, loopCondition, subFlowId, code, selectedCodeFileId,
                   selectedFunctionName, parameterValues>>

\* handleSave: updateNodeData(node.id, { ...form, error }) and onClose().
handleSave ==
    LET saved(data) ==
            [data EXCEPT !.label = label, !.description = description, !.code = code,
                         !.loopCondition = loopCondition, !.subFlowId = subFlowId,
                         !.codeFileId = selectedCodeFileId,
                         !.functionName = selectedFunctionName,
                         !.parameterValues = parameterValues,
                         !.error = IF validationResult # Null /\ ~validationResult.isValid
                                   THEN validationResult.message ELSE Null]
    IN  /\ pc = "idle"
        /\ FlowTabActive
        /\ editingNode # Null
        /\ nodes' = [k \in 1..Len(nodes) |->
                        IF nodes[k].id = editingNode.id
                        THEN [nodes[k] EXCEPT !.data = saved(@)] ELSE nodes[k]]
        /\ recordHistory
        /\ editingNode' = Null
        /\ nodeType' = ""
        /\ pc' = "render"
        /\ UNCHANGED <<label, description, loopCondition, subFlowId, code,
                       selectedCodeFileId, selectedFunctionName, parameterValues,
                       validationResult, tabVars, codeCursorIndex, runVars, outVars,
                       clock, editorVars,
                       typeVars, parserVars>>

---------------------------------------------------------------------------
(* Code files                                                              *)

\* The content handleAddCodeFile gives a new file, class name className.
TemplateContent(className) ==
    << <<"using", WS, "System", ";">>,
       <<"using", WS, "System", ".", "Collections", ".", "Generic", ";">>,
       <<>>,
       <<"namespace", WS, "Project", ".", "Functions">>,
       <<"{">>,
       <<WS, "///", WS, "<", "summary", ">">>,
       <<WS, "///", WS, "Description", WS, "for", WS, className>>,
       <<WS, "///", WS, "<", "/summary", ">">>,
       <<WS, "public", WS, "class", WS, className>>,
       <<WS, "{">>,
       <<WS, WS, "///", WS, "<", "summary", ">">>,
       <<WS, WS, "///", WS, "Execute", WS, "main", WS, "logic">>,
       <<WS, WS, "///", WS, "<", "/summary", ">">>,
       <<WS, WS, "public", WS, "void", WS, "Execute", "(", ")">>,
       <<WS, WS, "{">>,
       <<WS, WS, WS, "//", WS, "Your", WS, "code", WS, "here">>,
       <<WS, WS, "}">>,
       <<WS, "}">>,
       <<"}">> >>

\* handleAddCodeFile
handleAddCodeFile ==
    LET newId == "code-" \o Now
        name == "Script" \o Now \o ".cs"
        content == TemplateContent("Script" \o Now)
        newFile == [id |-> newId, name |-> name, content |-> content,
                    functions |-> parseCodeFunctions(content), refs |-> <<>>]
    IN  /\ pc = "idle"
        /\ clock' = clock + 1
        /\ codeFiles' = Append(codeFiles, newFile)
        /\ handleOpenTab(newId, "code", name, flows)
        /\ UNCHANGED <<editingNode, codeCursorIndex, runVars, outVars, projectVariables,
                       typeVars, parserVars>>

RECURSIVE WithoutId(_, _)
\* list.filter(f => f.id !== id)
WithoutId(list, id) ==
    IF list = <<>> THEN <<>>
    ELSE (IF Head(list).id # id THEN <<Head(list)>> ELSE <<>>) \o WithoutId(Tail(list), id)

RECURSIVE WithoutRef(_, _)
\* refs.filter(r => r !== id)
WithoutRef(refs, id) ==
    IF refs = <<>> THEN <<>>
    ELSE (IF Head(refs) # id THEN <<Head(refs)>> ELSE <<>>) \o WithoutRef(Tail(refs), id)

\* handleDeleteCodeFile(id), id the id of the k-th file.
handleDeleteCodeFile(k) ==
    LET id == codeFiles[k].id
    IN  /\ pc = "idle"
        /\ k \in 1..Len(codeFiles)
        /\ codeFiles' = WithoutId(codeFiles, id)
        /\ IF FindTab(id) # Null
           THEN handleCloseTab(id, flows)
           ELSE UNCHANGED <<tabs, activeTabId, activeFlowId, nodes, flows, histVars>>
                    /\ PanelKept
        /\ UNCHANGED <<editingNode, codeCursorIndex, runVars, outVars, clock,
                       projectVariables, typeVars, parserVars>>

\* A handler that changes code files only.
CodeFilesOnly ==
    /\ pc = "idle"
    /\ PanelKept
    /\ UNCHANGED <<projectVariables, flows, shellVars, typeVars, parserVars>>

\* The code file shown in the editor: the active tab is a code tab and the
\* file of its id exists.
ActiveCodeFileAt(k) ==
    /\ k \in 1..Len(codeFiles)
    /\ activeTab # Null /\ activeTab.type = "code"
    /\ codeFiles[k].id = activeTabId
    /\ \A j \in 1..(k - 1) : codeFiles[j].id # activeTabId

\* handleUpdateCodeFile that stores the text and keeps the functions parsed
\* from the text before.
handleUpdateCodeFileKeepsFunctions(k, content) ==
    LET id == codeFiles[k].id
        updated == [codeFiles[k] EXCEPT !.content = content]
    IN  /\ codeFiles' = [j \in 1..Len(codeFiles) |->
                            IF codeFiles[j].id = id THEN updated ELSE codeFiles[j]]
        /\ CodeFilesOnly

\* handleUpdateCodeFile(id, content), id the id of the k-th file.
handleUpdateCodeFile(k, content) ==
    LET id == codeFiles[k].id
        updated == [codeFiles[k] EXCEPT !.content = content,
                                        !.functions = parseCodeFunctions(content)]
    IN  /\ codeFiles' = [j \in 1..Len(codeFiles) |->
                            IF codeFiles[j].id = id THEN updated ELSE codeFiles[j]]
        /\ CodeFilesOnly

\* The code editor of the active code file: onChange
onChangeCode(k, content) ==
    /\ ActiveCodeFileAt(k)
    /\ handleUpdateCodeFile(k, content)

\* handleRenameCodeFile(id, name), id the id of the k-th file.
handleRenameCodeFile(k, name) ==
    LET id == codeFiles[k].id
    IN  /\ pc = "idle"
        /\ k \in 1..Len(codeFiles)
        /\ codeFiles' = [j \in 1..Len(codeFiles) |->
                            IF codeFiles[j].id = id THEN [codeFiles[j] EXCEPT !.name = name]
                            ELSE codeFiles[j]]
        /\ tabs' = [j \in 1..Len(tabs) |->
                       IF tabs[j].id = id THEN [tabs[j] EXCEPT !.title = name] ELSE tabs[j]]
        /\ PanelKept
        /\ UNCHANGED <<projectVariables, flows, activeTabId, activeFlowId, nodes,
                       editingNode, codeCursorIndex, histVars, runVars, outVars, clock, typeVars, parserVars>>

\* handleUpdateCodeRefs(id, refs), called by the reference selector of the
\* active code file with the id of another file toggled.
handleUpdateCodeRefs(k, other) ==
    LET isRef == \E r \in 1..Len(codeFiles[k].refs) : codeFiles[k].refs[r] = other
        newRefs == IF isRef THEN WithoutRef(codeFiles[k].refs, other)
                   ELSE Append(codeFiles[k].refs, other)
    IN  /\ ActiveCodeFileAt(k)
        /\ \E j \in 1..Len(codeFiles) : codeFiles[j].id = other /\ other # codeFiles[k].id
        /\ codeFiles' = [j \in 1..Len(codeFiles) |->
                            IF codeFiles[j].id = codeFiles[k].id
                            THEN [codeFiles[j] EXCEPT !.refs = newRefs] ELSE codeFiles[j]]
        /\ CodeFilesOnly

\* onCursorChange={setCodeCursorIndex}: the cursor of the code editor, as
\* the number of lexemes and line breaks before it.
setCodeCursorIndex(index) ==
    /\ pc = "idle"
    /\ \E k \in 1..Len(codeFiles) :
           ActiveCodeFileAt(k) /\ index \in 0..Len(Join(codeFiles[k].content, <<NL>>))
    /\ codeCursorIndex' = index
    /\ PanelKept
    /\ UNCHANGED <<editorVars, tabVars, nodes, editingNode, histVars, runVars, outVars, clock,
                   typeVars, parserVars>>

\* currentContent.lastIndexOf('}'), -1 when there is none.
LastBrace(text) ==
    IF \E p \in 1..Len(text) : text[p] = "}"
    THEN (CHOOSE p \in 1..Len(text) :
              text[p] = "}" /\ \A q \in (p + 1)..Len(text) : text[q] # "}") - 1
    ELSE -1

\* onApplyCode(code) of the copilot of the active code file: the generated
\* lines are inserted at the cursor, between two line breaks.
onApplyCode(k, generated) ==
    LET currentContent == Join(codeFiles[k].content, <<NL>>)
        insertPos ==
            IF codeCursorIndex < 0 \/ codeCursorIndex > Len(currentContent)
            THEN IF LastBrace(currentContent) > -1 THEN LastBrace(currentContent)
                 ELSE Len(currentContent)
            ELSE codeCursorIndex
        before == SubSeq(currentContent, 1, insertPos)
        after == From(currentContent, insertPos + 1)
        newContent == before \o <<NL>> \o Join(generated, <<NL>>) \o <<NL>> \o after
    IN  /\ ActiveCodeFileAt(k)
        /\ handleUpdateCodeFile(k, Split(newContent, NL))

---------------------------------------------------------------------------
(* Compile and reference search                                            *)

\* /namespace\s+[\w.]+/.test(content): of the lexemes used here only the
\* word itself ends with 'namespace'.
hasNamespace(content) ==
    LET text == Join(content, <<NL>>)
    IN  \E p \in 1..Len(text) :
            LET q == SkipWhile("blank", text, p + 1)
            IN  /\ text[p] = "namespace"
                /\ q > p + 1 /\ q <= Len(text)
                /\ IsWord(text[q])

\* /public\s+class\s+\w+/.test(content)
hasClass(content) ==
    LET text == Join(content, <<NL>>)
    IN  \E p \in 1..Len(text) :
            LET q == SkipWhile("blank", text, p + 1)
                r == SkipWhile("blank", text, q + 1)
            IN  /\ text[p] = "public"
                /\ q > p + 1 /\ q <= Len(text) /\ text[q] = "class"
                /\ r > q + 1 /\ r <= Len(text)
                /\ IsWord(text[r]) /\ text[r] # "."

\* An entry for a node that names the flow shown on the canvas in place of
\* the flow that holds the node.
NodeIssueOfActiveFlow(flow, node, message) ==
    [id |-> "err-" \o node.id, flowId |-> activeFlowId, nodeId |-> node.id,
     type |-> "error", message |-> message]

\* One entry of issues for a node.
NodeIssue(flow, node, message) ==
    [id |-> "err-" \o node.id, flowId |-> FlowId(flow), nodeId |-> node.id,
     type |-> "error", message |-> message]

\* The body of flow.nodes.forEach in handleCompile: the issues pushed for
\* one node.
NodeIssues(flow, node) ==
    (IF node.type = "subflow" /\ node.data.subFlowId = ""
     THEN <<NodeIssue(flow, node, [template |-> "SubFlowNotSelected"])>> ELSE <<>>)
    \o (IF node.type = "code" /\ node.data.code = <<>>
        THEN <<NodeIssue(flow, node, [template |-> "CodeEmpty"])>> ELSE <<>>)
    \o (IF node.type = "functionCall"
           /\ (node.data.codeFileId = "" \/ node.data.functionName = "")
        THEN <<NodeIssue(flow, node, [template |-> "FunctionNotConfigured"])>> ELSE <<>>)
    \o (IF node.data.error # Null
        THEN <<NodeIssue(flow, node, node.data.error)>> ELSE <<>>)

RECURSIVE FlowIssues(_, _)
\* flow.nodes.forEach from node k on.
FlowIssues(flow, k) ==
    IF k > Len(flow.nodes) THEN <<>>
    ELSE NodeIssues(flow, flow.nodes[k]) \o FlowIssues(flow, k + 1)

RECURSIVE StoreIssues(_, _)
\* Object.values(flows).forEach from flow k on.
StoreIssues(store, k) ==
    IF k > Len(store) THEN <<>>
    ELSE FlowIssues(store[k], 1) \o StoreIssues(store, k + 1)

RECURSIVE FileIssues(_, _)
\* codeFiles.forEach from file k on: the check of the file structure.
FileIssues(files, k) ==
    IF k > Len(files) THEN <<>>
    ELSE (IF ~hasNamespace(files[k].content) \/ ~hasClass(files[k].content)
          THEN << [id |-> "code-struct-" \o files[k].id, flowId |-> "code-files",
                   nodeId |-> files[k].id, type |-> "error",
                   message |-> [template |-> "FileStructure", file |-> files[k].name]] >>
          ELSE <<>>)
         \o FileIssues(files, k + 1)

\* The event handler has queued saveCurrentFlowState for the active flow
\* tab; flows keeps the value of the render while the handler runs.
SaveQueued ==
    flows' = IF FlowTabActive THEN saveCurrentFlowState(flows, activeTab.id) ELSE flows

\* handleCompile
handleCompile ==
    /\ pc = "idle"
    /\ SaveQueued
    /\ validationIssues' = StoreIssues(flows, 1) \o FileIssues(codeFiles, 1)
    /\ showCompilerPanel' = TRUE
    /\ PanelKept
    /\ UNCHANGED <<projectVariables, codeFiles, tabVars, nodes, editingNode,
                   histVars, runVars, codeCursorIndex, referenceResults, showReferencePanel, clock,
                   typeVars, parserVars>>

\* The rows pushed for one node by handleFindReferences.
NodeReferences(flow, node, targetId, type) ==
    LET row(context) == [flowId |-> FlowId(flow), flowName |-> FlowName(flow),
                         nodeId |-> node.id,
                         nodeLabel |-> node.data.label, context |-> context]
    IN  (IF type = "flow" /\ node.type = "subflow" /\ node.data.subFlowId = targetId
         THEN <<row("SubFlow")>> ELSE <<>>)
        \o (IF type = "code" /\ node.type = "functionCall" /\ node.data.codeFileId = targetId
            THEN <<row("FunctionCall")>> ELSE <<>>)

RECURSIVE FlowReferences(_, _, _, _)
FlowReferences(flow, k, targetId, type) ==
    IF k > Len(flow.nodes) THEN <<>>
    ELSE NodeReferences(flow, flow.nodes[k], targetId, type)
             \o FlowReferences(flow, k + 1, targetId, type)

RECURSIVE StoreReferences(_, _, _, _)
StoreReferences(store, k, targetId, type) ==
    IF k > Len(store) THEN <<>>
    ELSE FlowReferences(store[k], 1, targetId, type)
             \o StoreReferences(store, k + 1, targetId, type)

\* handleFindReferences(targetId, type)
handleFindReferences(targetId, type) ==
    /\ pc = "idle"
    /\ SaveQueued
    /\ referenceResults' = StoreReferences(flows, 1, targetId, type)
    /\ showReferencePanel' = TRUE
    /\ PanelKept
    /\ UNCHANGED <<projectVariables, codeFiles, tabVars, nodes, editingNode,
                   histVars, runVars, codeCursorIndex, validationIssues, showCompilerPanel, clock,
                   typeVars, parserVars>>

\* The menu of the sidebar: references of the k-th flow.
onFindReferences(k) ==
    k \in 1..Len(flows) /\ handleFindReferences(flows[k].id, "flow")

\* The menu of the sidebar: references of the k-th code file.
onFindCodeReferences(k) ==
    k \in 1..Len(codeFiles) /\ handleFindReferences(codeFiles[k].id, "code")

---------------------------------------------------------------------------
(* Specification of the project: flows are added, nodes dropped on the     *)
(* canvas and configured in the panel, code files added, edited and        *)
(* deleted; then the project is compiled and searched for references.      *)

\* The palette items dropped.
DropTypes == {"subflow", "functionCall"}

\* The nodes opened in the config panel.
ConfiguredTypes == {"subflow", "code", "functionCall", "decision"}

\* The text typed over the content of a code file: it declares no function,
\* no namespace and no class.
BareContent == <<UsingLine>>

InitProject == TypesIdle /\ ParserIdle /\ EditorIdle /\ PanelIdle

\* The project is edited before the compiler panel and the reference panel
\* are opened.
Editing == ~showCompilerPanel /\ ~showReferencePanel

\* Most snapshots on the undo stack of a session.
MaxEdits == 2

\* The undo stack has room for the snapshot of one more edit of the session.
Recordable == Len(past) < MaxEdits

NextProject ==
    \/ Editing /\ editingNode = Null /\ IdsLeft /\ handleAddFlow
    \/ \E k \in 1..3 : Editing /\ editingNode = Null /\ ClickTab(k)
    \/ \E type \in DropTypes : Editing /\ editingNode = Null /\ Recordable /\ IdsLeft /\ onDrop(type)
    \/ \E k \in 1..(Len(INITIAL_NODES) + MaxIds) :
           /\ Editing /\ editingNode = Null
           /\ k <= Len(nodes) /\ nodes[k].type \in ConfiguredTypes
           /\ onNodeDoubleClick(k)
    \/ \E k \in 1..2 : Editing /\ k <= Len(flows) /\ setSubFlowId(flows[k].id)
    \/ Editing /\ setCode(<<>>)
    \/ \E g \in 1..2 : Editing /\ selectFunction(1, g)
    \/ Editing /\ typeCondition(<<"{", "a", "}">>)
    \/ ValidationEffect
    \/ Editing /\ Recordable /\ handleSave
    \/ Editing /\ editingNode = Null /\ IdsLeft /\ handleAddCodeFile
    \/ Editing /\ editingNode = Null /\ handleDeleteCodeFile(1)
    \/ Editing /\ onChangeCode(1, BareContent)
    \/ handleCompile
    \/ \E k \in 1..2 : onFindReferences(k)
    \/ onFindCodeReferences(1)

SpecProject == InitProject /\ [][NextProject]_vars

---------------------------------------------------------------------------
(* Properties of the compile pass and of the reference search.             *)

\* The flows of the project as the editor shows them: the canvas for the
\* flow of the active flow tab, the stored nodes for every other flow.
ProjectFlows == IF FlowTabActive THEN saveCurrentFlowState(flows, activeTab.id) ELSE flows

\* The rules of the compile pass a node violates.
Violations(node) ==
    {rule \in {"subflow", "code", "functionCall", "error"} :
        \/ rule = "subflow" /\ node.type = "subflow" /\ node.data.subFlowId = ""
        \/ rule = "code" /\ node.type = "code" /\ node.data.code = <<>>
        \/ rule = "functionCall" /\ node.type = "functionCall"
               /\ (node.data.codeFileId = "" \/ node.data.functionName = "")
        \/ rule = "error" /\ node.data.error # Null}

\* A function-call node is configured with a file id and a function name,
\* and the code files hold no such function.
Dangling(node) ==
    /\ node.type = "functionCall"
    /\ node.data.codeFileId # "" /\ node.data.functionName # ""
    /\ SelectedFunction(codeFiles, node.data.codeFileId, node.data.functionName) = Null

\* The entries of a list of issues or rows that satisfy nothing but their
\* position: the positions of the entries for a node of a flow.
EntriesFor(list, flowId, nodeId) ==
    {p \in 1..Len(list) : list[p].flowId = flowId /\ list[p].nodeId = nodeId}

\* The file fails the check of its structure.
Unstructured(file) == ~hasNamespace(file.content) \/ ~hasClass(file.content)

\* C12: a function-call node configured with a code file id and a function
\* name whose file was deleted, or whose function disappeared from the text
\* of the file, is reported: the validation of the panel opened on it gives
\* a finding, and the compile pass gives a diagnostic for the node of every
\* flow it reads.
C12_DanglingTargetReported ==
    [][/\ ValidationEffect /\ nodeType = "functionCall"
          /\ selectedCodeFileId # "" /\ selectedFunctionName # ""
          /\ SelectedFunction(codeFiles, selectedCodeFileId, selectedFunctionName) = Null
          => validationResult' # Null
       /\ handleCompile =>
              \A f \in 1..Len(flows) : \A k \in 1..Len(flows[f].nodes) :
                  Dangling(flows[f].nodes[k]) =>
                      EntriesFor(validationIssues', flows[f].id, flows[f].nodes[k].id) # {}
      ]_vars

\* C13: the compile pass returns, over the project, one diagnostic for each
\* rule a node violates, with the id of the flow of the node and the id of
\* the node, one for each code file that fails the structural check, and
\* nothing else.
C13_CompileResultContent ==
    [][handleCompile =>
           LET project == ProjectFlows
               issues == validationIssues'
               ofNodes == UNION {EntriesFor(issues, project[f].id, project[f].nodes[k].id) :
                                    <<f, k>> \in {fk \in (1..Len(project)) \X (1..(Len(INITIAL_NODES) + MaxIds)) :
                                                     fk[2] <= Len(project[fk[1]].nodes)}}
               ofFile(k) == {p \in 1..Len(issues) : issues[p].nodeId = codeFiles[k].id}
               ofFiles == UNION {ofFile(k) : k \in 1..Len(codeFiles)}
           IN  /\ \A f \in 1..Len(project) : \A k \in 1..Len(project[f].nodes) :
                      Cardinality(EntriesFor(issues, project[f].id, project[f].nodes[k].id))
                          = Cardinality(Violations(project[f].nodes[k]))
               /\ \A k \in 1..Len(codeFiles) :
                      Cardinality(ofFile(k)) = IF Unstructured(codeFiles[k]) THEN 1 ELSE 0
               /\ ofNodes \cup ofFiles = 1..Len(issues)
      ]_vars

\* C14: compile computes its diagnostics over the nodes on the canvas of the
\* active flow, so that a node of the canvas that violates a rule is
\* reported by the same invocation, and a second invocation with no edit
\* since the first returns the same set of diagnostics.
C14_CompileSeesCanvas ==
    [][handleCompile =>
           /\ FlowTabActive =>
                  \A k \in 1..Len(nodes) :
                      Violations(nodes[k]) # {} =>
                          EntriesFor(validationIssues', activeTab.id, nodes[k].id) # {}
           /\ showCompilerPanel =>
                  {validationIssues'[p] : p \in 1..Len(validationIssues')}
                      = {validationIssues[p] : p \in 1..Len(validationIssues)}
      ]_vars

\* The node refers to the target of the given kind: a sub-flow node to the
\* flow it calls, a function-call node to the code file of its function.
RefersTo(node, targetId, type) ==
    \/ type = "flow" /\ node.type = "subflow" /\ node.data.subFlowId = targetId
    \/ type = "code" /\ node.type = "functionCall" /\ node.data.codeFileId = targetId

\* The rows are one row for each node of the project that refers to the
\* target, with the id and the name of its flow, its id and its label.
ExactRows(project, rows, targetId, type) ==
    LET referring == {fk \in (1..Len(project)) \X (1..(Len(INITIAL_NODES) + MaxIds)) :
                         /\ fk[2] <= Len(project[fk[1]].nodes)
                         /\ RefersTo(project[fk[1]].nodes[fk[2]], targetId, type)}
        rowsOf(fk) == {p \in 1..Len(rows) :
                          /\ rows[p].flowId = project[fk[1]].id
                          /\ rows[p].flowName = project[fk[1]].name
                          /\ rows[p].nodeId = project[fk[1]].nodes[fk[2]].id
                          /\ rows[p].nodeLabel = project[fk[1]].nodes[fk[2]].data.label}
    IN  /\ \A fk \in referring : Cardinality(rowsOf(fk)) = 1
        /\ UNION {rowsOf(fk) : fk \in referring} = 1..Len(rows)

\* C15: the reference search for a flow returns one row for each sub-flow
\* node of the project whose target flow is that flow, the search for a code
\* file one row for each function-call node whose code file is that file,
\* and no other row; a row carries the id and the name of the flow of the
\* node and the id and the label of the node.
C15_ExactReferences ==
    [][/\ \A k \in 1..Len(flows) :
              onFindReferences(k) =>
                  ExactRows(ProjectFlows, referenceResults', flows[k].id, "flow")
       /\ \A k \in 1..Len(codeFiles) :
              onFindCodeReferences(k) =>
                  ExactRows(ProjectFlows, referenceResults', codeFiles[k].id, "code")
      ]_vars

\* C16: for every code file whose text lacks a namespace declaration or a
\* public class declaration the compile pass emits one diagnostic of
\* severity warning, and for a file that has both it emits none.
C16_StructuralCheckIsWarning ==
    [][handleCompile =>
           \A k \in 1..Len(codeFiles) :
               LET ofFile == {p \in 1..Len(validationIssues') :
                                 validationIssues'[p].nodeId = codeFiles[k].id}
               IN  IF Unstructured(codeFiles[k])
                   THEN /\ Cardinality(ofFile) = 1
                        /\ \A p \in ofFile : validationIssues'[p].type = "warning"
                   ELSE ofFile = {}
      ]_vars

---------------------------------------------------------------------------
(* Properties of the resolution of token names.                            *)

\* The names of the tokens of text that name no variable of the table.
UnresolvedNames(text, variables) ==
    {n \in VarNames :
        /\ Find(variables, n) = Null
        /\ \E p \in 1..Len(text) :
               MatchToken(text, p).matched /\ MatchToken(text, p).name = n}

\* C18: a condition with a token whose name matches no known variable has a
\* validation result that holds a diagnostic: the unresolved name is not
\* accepted as valid.
C18_UnresolvedSurfaced ==
    Settled /\ nodeType = "decision"
            /\ UnresolvedNames(Condition, PanelVariables(projectVariables, localVariables)) # {}
        => validationResult # Null /\ validationResult.isValid = FALSE

---------------------------------------------------------------------------
(* Specification of the code files: files are added, shown in the editor,  *)
(* typed over, extended with generated code at the cursor, renamed, given  *)
(* references to other files, and deleted.                                 *)

\* The lines a file may have when generated code is inserted.
MaxFileLines == 2

\* The texts typed over the content of a file.
TypedContents == {BareContent, <<DocLine, AddDecl, CloseLine, LogDecl>>, <<AddDecl>>}

\* The code the copilot generates.
GeneratedCode == {<<LogDecl, CloseLine>>}

\* The places the cursor is put at.
CursorPlaces == {0, 3, 16}

InitCode == TypesIdle /\ ParserIdle /\ EditorIdle /\ PanelIdle

NextCode ==
    \/ IdsLeft /\ handleAddCodeFile
    \/ \E k \in 1..3 : ClickTab(k)
    \/ \E k \in 1..MaxIds : \E content \in TypedContents : onChangeCode(k, content)
    \/ \E index \in CursorPlaces : setCodeCursorIndex(index)
    \/ \E k \in 1..MaxIds : \E generated \in GeneratedCode :
           /\ k <= Len(codeFiles) /\ Len(codeFiles[k].content) <= MaxFileLines
           /\ onApplyCode(k, generated)
    \/ \E k \in 1..MaxIds : handleRenameCodeFile(k, "Util.cs")
    \/ \E k \in 1..MaxIds : \E j \in 1..MaxIds :
           j <= Len(codeFiles) /\ handleUpdateCodeRefs(k, codeFiles[j].id)
    \/ \E k \in 1..MaxIds : handleDeleteCodeFile(k)

SpecCode == InitCode /\ [][NextCode]_vars

\* C19: after any code-file operations the functions stored with every code
\* file are the result of parsing the current text of the file.
C19_CallablesFollowText ==
    \A k \in 1..Len(codeFiles) :
        codeFiles[k].functions = parseCodeFunctions(codeFiles[k].content)

\* A file that was typed over, extended with generated code, renamed and
\* given a reference, after another file was deleted: it holds the typed and
\* the generated function.
C19_Witness ==
    /\ Len(codeFiles) = 1
    /\ clock > MaxIds
    /\ codeFiles[1].name = "Util.cs"
    /\ codeFiles[1].refs # <<>>
    /\ codeFiles[1].content \notin TypedContents
    /\ Len(codeFiles[1].content) < Len(TemplateContent("Script1"))
    /\ \E f \in 1..Len(codeFiles[1].functions) : codeFiles[1].functions[f].name = "Add"
    /\ \E f \in 1..Len(codeFiles[1].functions) : codeFiles[1].functions[f].name = "Log"

---------------------------------------------------------------------------
(* Specification of the variable lists: variables are added and deleted in *)
(* the variable panel, and flows generated by the copilot are applied to   *)
(* the canvas with the variables they bring.                               *)

\* The flows applied in a session.
MaxApplied == 2

\* The node of a generated flow: generateFlowFromDescription gives it the
\* id of the answer and the data fields of the answer.
GeneratedNode == [id |-> "n1", type |-> "log", data |-> LabelOnly("Log result")]

\* The variables of a generated flow: the names and types of the answer.
GeneratedVariables ==
    {<<>>,
     <<[name |-> <<"a">>, type |-> "string"]>>,
     <<[name |-> <<"a">>, type |-> "number"], [name |-> <<"b">>, type |-> "string"]>>,
     <<[name |-> <<"2", "a">>, type |-> "string"]>>}

\* onApplyFlow(data) of the copilot of the canvas, data.nodes not empty.
onApplyFlow(data) ==
    /\ pc = "idle"
    /\ FlowTabActive
    /\ data.nodes # <<>>
    /\ nodes' = nodes \o data.nodes
    /\ recordHistory
    /\ flows' = setVariables(localVariables \o data.variables)
    /\ PanelKept
    /\ UNCHANGED <<projectVariables, codeFiles, tabVars, editingNode, codeCursorIndex,
                   runVars, outVars, clock, typeVars, parserVars>>

InitVariables == TypesIdle /\ ParserIdle /\ EditorIdle /\ PanelIdle

NextVariables ==
    \/ \E g \in BOOLEAN, n \in VarNames, t \in SessionTypes : handleAddVariable(g, n, t)
    \/ \E g \in BOOLEAN, k \in 1..4 : handleDeleteVariable(g, k)
    \/ \E variables \in GeneratedVariables :
           /\ Len(nodes) < Len(INITIAL_NODES) + MaxApplied
           /\ onApplyFlow([nodes |-> <<GeneratedNode>>, variables |-> variables])
    \/ ValidationEffect

SpecVariables == InitVariables /\ [][NextVariables]_vars

\* C20: no two variables of the global list, and no two variables of the
\* local list of one flow, have the same name.
C20_UniqueNames ==
    LET unique(list) == \A j \in 1..Len(list) : \A k \in 1..Len(list) :
                            list[j].name = list[k].name => j = k
    IN  /\ unique(projectVariables)
        /\ \A f \in 1..Len(flows) : unique(flows[f].variables)

\* C21: every variable of the global list and of the local list of every
\* flow has a name that is not empty and is a letter or an underscore
\* followed by letters, digits and underscores.
C21_WellFormedNames ==
    /\ \A k \in 1..Len(projectVariables) : isValidName(projectVariables[k].name)
    /\ \A f \in 1..Len(flows) :
           \A k \in 1..Len(flows[f].variables) : isValidName(flows[f].variables[k].name)

---------------------------------------------------------------------------
(* Further properties of the type lattice, under SpecTypes.                *)

\* C27: the compatibility check gives the same verdict for a pair of types
\* and for the pair with its two types exchanged.
C27_Symmetric ==
    Checked => compatResult.value = checkTypeCompatibility(expectedType, varType)

\* An integer variable has been checked against an expected number and
\* found compatible.
C27_Witness ==
    Checked /\ varType = "integer" /\ expectedType = "number" /\ compatResult.value = TRUE

---------------------------------------------------------------------------
(* Specification of the auto-fix: a decision or a loop node whose         *)
(* condition is any text of FixConditions, any table of variables, then   *)
(* the validation effect and the fix button, in any order.                 *)

\* Conditions in which a '=' follows another at a distance of one character,
\* or ends the text.
CrowdedConditions ==
    {Token(<<"a">>) \o <<"=", "5", "=", "5">>,
     Token(<<"a">>) \o <<"=", " ", "=", "5">>,
     Token(<<"a">>) \o <<"=">> \o Token(<<"b">>) \o <<"=">>,
     Token(<<"a">>) \o <<"=">> \o Token(<<"b">>) \o <<"=">> \o Token(<<"a">>),
     Token(<<"a">>) \o <<" ", "=", "5", " ">> \o Token(<<"b">>) \o <<">", "=", "5">>}

FixConditions == Conditions \cup CrowdedConditions

InitFix ==
    /\ nodeType \in {"decision", "loop"}
    /\ \E text \in FixConditions :
           /\ description = (IF nodeType = "decision" THEN text ELSE <<>>)
           /\ loopCondition = (IF nodeType = "loop" THEN text ELSE <<>>)
    /\ label = <<>>
    /\ subFlowId = "" /\ code = <<>>
    /\ projectVariables \in VarTables
    /\ flows = <<MainFlow(INITIAL_NODES \o <<LoopNode>>, <<>>)>>
    /\ codeFiles = <<>>
    /\ ShellWith(INITIAL_NODES \o <<LoopNode>>,
                 IF nodeType = "decision" THEN "4" ELSE LoopNode.id)
    /\ selectedCodeFileId = "" /\ selectedFunctionName = "" /\ parameterValues = <<>>
    /\ validationResult = Null
    /\ pc = "render"
    /\ TypesIdle /\ ParserIdle

NextFix ==
    \/ ValidationEffect
    \/ applyFix

SpecFix == InitFix /\ [][NextFix]_vars

\* C28: when the fix is applied to a condition reported as an assignment,
\* the condition becomes the suggestion, the validator does not report the
\* new condition as an assignment, and no other field of the node, of the
\* project or of the editor changes.
C28_FixConverges ==
    [][applyFix =>
          /\ TemplateOf(validationResult) = "Assignment" =>
                 /\ Condition' = validationResult.suggestion
                 /\ TemplateOf(validateExpression(Condition',
                        PanelVariables(projectVariables, localVariables))) # "Assignment"
          /\ nodeType = "decision" => loopCondition' = loopCondition
          /\ nodeType = "loop" => description' = description
          /\ UNCHANGED <<nodeType, label, subFlowId, code, selectedCodeFileId,
                         selectedFunctionName, parameterValues, editorVars, shellVars>>]_vars

\* The fix has been applied to a loop condition with two assignments, and
\* the validator has run on the result.
C28_Witness ==
    /\ Settled
    /\ nodeType = "loop"
    /\ loopCondition = Token(<<"a">>) \o <<" ", "=", "=", " ">> \o Token(<<"b">>)
                           \o <<" ", "=", "=", " ">> \o <<"5">>
    /\ TemplateOf(validationResult) # "Assignment"

---------------------------------------------------------------------------
(* Reference scanner of the config panel: usedVariables                    *)

\* vars.add(name) with a plain list in place of the Set.
AddNameAlways(found, name) == Append(found, name)

\* vars.add(name): a Set keeps one entry per name, in the order of the
\* first insertion.
AddName(found, name) ==
    IF \E k \in 1..Len(found) : found[k] = name THEN found ELSE Append(found, name)

\* /\{([a-zA-Z_][a-zA-Z0-9_]*)\}/ at position p
MatchIdentifier(text, p) ==
    LET tok == MatchToken(text, p)
    IN  IF tok.matched /\ Head(tok.name) \in Letters \cup {"_"} THEN tok ELSE NoMatch

RECURSIVE AddTokens(_, _, _)
\* text.match(/\{...\}/g).forEach(m => vars.add(m.slice(1, -1))), the search
\* being at position p of text.
AddTokens(found, text, p) ==
    IF p > Len(text) THEN found
    ELSE LET tok == MatchIdentifier(text, p)
         IN  IF tok.matched THEN AddTokens(AddName(found, tok.name), text, tok.end)
             ELSE AddTokens(found, text, p + 1)

RECURSIVE AddValues(_, _, _)
\* Object.values(parameterValues).forEach(val => ...) over the keys left.
AddValues(found, pvals, keys) ==
    IF keys = {} THEN found
    ELSE LET key == CHOOSE n \in keys : TRUE
         IN  AddValues(AddTokens(found, pvals[key], 1), pvals, keys \ {key})

\* \b at position p of text: exactly one of the characters before and at p
\* is a word character.
WordBoundary(text, p) ==
    LET word(q) == q >= 1 /\ q <= Len(text) /\ IsTokenChar(text[q])
    IN  word(p - 1) # word(p)

\* new RegExp(`\\b${escapedName}\\b`).test(text)
WholeWordIn(text, name) ==
    \E p \in 1..(Len(text) + 1) :
        /\ HasAt(text, p, name)
        /\ WordBoundary(text, p)
        /\ WordBoundary(text, p + Len(name))

RECURSIVE AddKnown(_, _, _)
\* variables.forEach(v => { if (regex.test(code)) vars.add(v.name) })
AddKnown(found, codeText, variables) ==
    IF variables = <<>> THEN found
    ELSE AddKnown(IF WholeWordIn(codeText, Head(variables).name)
                  THEN AddName(found, Head(variables).name) ELSE found,
                  codeText, Tail(variables))

RECURSIVE Described(_, _)
\* Array.from(vars).map(vName => ({ name, isDefined, type }))
Described(found, variables) ==
    IF found = <<>> THEN <<>>
    ELSE LET v == Find(variables, Head(found))
         IN  <<[name |-> Head(found), isDefined |-> v # Null,
                type |-> IF v # Null THEN v.type ELSE "unknown"]>>
                 \o Described(Tail(found), variables)

\* usedVariables: the memo of the panel on the form fields and the variables.
usedVariables(nt, labelText, desc, loopCond, pvals, codeText, variables) ==
    LET fields == AddTokens(AddTokens(AddTokens(<<>>, labelText, 1), desc, 1), loopCond, 1)
        values == IF nt = "functionCall" THEN AddValues(fields, pvals, DOMAIN pvals)
                  ELSE fields
        coded == IF nt = "code" /\ codeText # <<>>
                 THEN AddTokens(AddKnown(values, codeText, variables), codeText, 1)
                 ELSE values
    IN  Described(coded, variables)

---------------------------------------------------------------------------
(* Specification of the reference scanner: a panel open on a node of any   *)
(* type with any texts of ScanTexts in its fields, any code of CodeTexts,  *)
(* any argument texts and any table of variables, then the effect of the   *)
(* render.                                                                 *)

\* '{a} and {a} and {b}'
TwiceText ==
    Token(<<"a">>) \o <<" ", "a", "n", "d", " ">> \o Token(<<"a">>)
        \o <<" ", "a", "n", "d", " ">> \o Token(<<"b">>)

ScanTexts == {<<>>, TwiceText, Token(<<"b">>) \o Token(<<"a">>), Token(<<"5">>) \o <<"a">>}

CodeTexts ==
    {<<>>, <<"a", "b">>, <<"b", " ", "a", "n", "d", " ">> \o Token(<<"b">>),
     <<"a", ";", "a">>}

ScanTypes == {"log", "loop", "functionCall", "code"}

ScanTables ==
    {<<>>, <<[name |-> <<"a">>, type |-> "number"]>>,
     <<[name |-> <<"a">>, type |-> "number"], [name |-> <<"b">>, type |-> "string"]>>}

InitScan ==
    /\ nodeType \in ScanTypes
    /\ label \in ScanTexts /\ description \in ScanTexts /\ loopCondition \in ScanTexts
    /\ code \in CodeTexts
    /\ subFlowId = ""
    /\ selectedCodeFileId = "" /\ selectedFunctionName = ""
    /\ \E keys \in SUBSET {"x", "y"} : parameterValues \in [keys -> ScanTexts \ {<<>>}]
    /\ projectVariables \in ScanTables
    /\ flows = <<MainFlow(INITIAL_NODES, <<>>)>>
    /\ codeFiles = <<>>
    /\ ShellWith(INITIAL_NODES, "5")
    /\ validationResult = Null
    /\ pc = "render"
    /\ TypesIdle /\ ParserIdle

NextScan == ValidationEffect

SpecScan == InitScan /\ [][NextScan]_vars

\* The names of the '{identifier}' tokens of text.
TokenNames(text) ==
    LET braced == {<<p, q>> \in (1..Len(text)) \X (1..Len(text)) :
                       p < q /\ text[p] = "{" /\ text[q] = "}"}
    IN  {name \in {SubSeq(text, pq[1] + 1, pq[2] - 1) : pq \in braced} : isValidName(name)}

\* The known names that stand in text between characters that are not word
\* characters (or the ends of text).
KnownWords(text, variables) ==
    {variables[k].name : k \in {k \in 1..Len(variables) :
        \E p \in 1..Len(text) :
            /\ HasAt(text, p, variables[k].name)
            /\ p = 1 \/ ~IsTokenChar(text[p - 1])
            /\ p + Len(variables[k].name) > Len(text)
                   \/ ~IsTokenChar(text[p + Len(variables[k].name)])}}

\* The names the panel on display refers to: the tokens of the label, the
\* description and the loop condition, of the argument texts of a
\* function-call node, and the tokens and known words of the code of a code
\* node.
Referenced ==
    TokenNames(label) \cup TokenNames(description) \cup TokenNames(loopCondition)
        \cup (IF nodeType = "functionCall"
              THEN UNION {TokenNames(parameterValues[n]) : n \in DOMAIN parameterValues}
              ELSE {})
        \cup (IF nodeType = "code"
              THEN TokenNames(code)
                       \cup KnownWords(code, PanelVariables(projectVariables, localVariables))
              ELSE {})

\* C22: the result of the scanner holds every name the fields of the node
\* refer to, each exactly once whatever the number of its occurrences and
\* of the fields it occurs in, and no other name.
C22_EachNameOnce ==
    LET result == usedVariables(nodeType, label, description, loopCondition,
                                parameterValues, code,
                                PanelVariables(projectVariables, localVariables))
    IN  /\ {result[k].name : k \in 1..Len(result)} = Referenced
        /\ \A j \in 1..Len(result) : \A k \in 1..Len(result) :
               result[j].name = result[k].name => j = k

\* The panel has rendered with '{a} and {a} and {b}' as description, a label
\* with the same tokens and no token elsewhere.
C22_Witness ==
    /\ Settled
    /\ description = TwiceText
    /\ label = Token(<<"b">>) \o Token(<<"a">>)
    /\ loopCondition = <<>>
    /\ nodeType = "log"
    /\ Referenced = {<<"a">>, <<"b">>}

---------------------------------------------------------------------------
(* Further properties of the compile pass, under SpecProject.              *)

\* The messages of the three rules the compile pass checks itself.
RuleTemplates == {"SubFlowNotSelected", "CodeEmpty", "FunctionNotConfigured"}

\* The positions of the entries of issues for a node of a flow whose message
\* is not the message of a rule of the compile pass.
AttachedEntries(issues, flowId, nodeId) ==
    {p \in EntriesFor(issues, flowId, nodeId) : issues[p].message.template \notin RuleTemplates}

\* C23: the compile pass gives, for each node of the project that carries an
\* attached error, one diagnostic with exactly that message and none for a
\* node that carries none; and saving the panel attaches the message of the
\* live validation result to the node when the validation fails and removes
\* the attached message when it passes.
C23_AttachedErrorPropagated ==
    [][/\ handleCompile =>
              LET project == ProjectFlows
                  issues == validationIssues'
              IN  \A f \in 1..Len(project) : \A k \in 1..Len(project[f].nodes) :
                      LET node == project[f].nodes[k]
                          own == AttachedEntries(issues, project[f].id, node.id)
                      IN  IF node.data.error # Null
                          THEN /\ Cardinality(own) = 1
                               /\ \A p \in own : issues[p].message = node.data.error
                          ELSE own = {}
       /\ handleSave =>
              \A k \in 1..Len(nodes) :
                  nodes[k].id = editingNode.id =>
                      nodes'[k].data.error =
                          IF validationResult # Null /\ ~validationResult.isValid
                          THEN validationResult.message ELSE Null
      ]_vars

\* C26: no two diagnostics of the list one compile pass returns have the
\* same id.
C26_UniqueIssueIds ==
    [][handleCompile =>
           \A p \in 1..Len(validationIssues') : \A q \in 1..Len(validationIssues') :
               validationIssues'[p].id = validationIssues'[q].id => p = q
      ]_vars

---------------------------------------------------------------------------
(* Undo and redo of the canvas (TopBar onUndo / onRedo).  A snapshot is    *)
(* the list of nodes of the canvas.                                        *)

\* The stacks and the canvas after the body of onUndo, past not empty.
Undone(h) ==
    [past |-> SubSeq(h.past, 1, Len(h.past) - 1),
     future |-> <<h.nodes>> \o h.future,
     nodes |-> h.past[Len(h.past)]]

\* The stacks and the canvas after the body of onRedo, future not empty.
Redone(h) ==
    [past |-> Append(h.past, h.nodes),
     future |-> Tail(h.future),
     nodes |-> Head(h.future)]

\* The stacks and the canvas of the render.
History == [past |-> past, future |-> future, nodes |-> nodes]

\* A handler of the top bar that changes the stacks and the canvas only.
HistoryOnly(h) ==
    /\ pc = "idle"
    /\ past' = h.past /\ future' = h.future /\ nodes' = h.nodes
    /\ PanelKept
    /\ UNCHANGED <<editorVars, tabVars, editingNode, codeCursorIndex, outVars, clock,
                   runVars, typeVars, parserVars>>

\* onUndo
onUndo == HistoryOnly(IF past = <<>> THEN History ELSE Undone(History))

\* onRedo
onRedo == HistoryOnly(IF future = <<>> THEN History ELSE Redone(History))

---------------------------------------------------------------------------
(* Specification of the undo history: nodes are dropped, the panel of a    *)
(* node is opened and saved any number of times, edits are undone and      *)
(* redone, flows and code files are added and tabs are clicked.            *)

InitHistory == TypesIdle /\ ParserIdle /\ EditorIdle /\ PanelIdle

NextHistory ==
    \/ editingNode = Null /\ IdsLeft /\ onDrop("subflow")
    \/ editingNode = Null /\ onNodeDoubleClick(4)
    \/ ValidationEffect
    \/ handleSave
    \/ FlowTabActive /\ editingNode = Null /\ onUndo
    \/ FlowTabActive /\ editingNode = Null /\ onRedo
    \/ editingNode = Null /\ IdsLeft /\ handleAddFlow
    \/ editingNode = Null /\ IdsLeft /\ handleAddCodeFile
    \/ \E k \in 1..3 : editingNode = Null /\ ClickTab(k)

SpecHistory == InitHistory /\ [][NextHistory]_vars

\* The handlers that record an edit of the canvas.
RecordedEdit == onDrop("subflow") \/ handleSave

\* C29: the two stacks together hold at most 11 snapshots; a recorded edit
\* empties the redo stack; undo with an empty undo stack and redo with an
\* empty redo stack change nothing; a redo right after an undo gives back
\* the canvas and both stacks; and when the active tab becomes a flow tab
\* both stacks are empty.
C29_HistoryBoundedConsistent ==
    [][/\ Len(past') + Len(future') <= 11
       /\ RecordedEdit => future' = <<>>
       /\ onUndo /\ past = <<>> => UNCHANGED <<past, future, nodes>>
       /\ onRedo /\ future = <<>> => UNCHANGED <<past, future, nodes>>
       /\ past # <<>> => Redone(Undone(History)) = History
       /\ activeTabId' # activeTabId /\ activeTab' # Null /\ activeTab'.type = "flow"
              => past' = <<>> /\ future' = <<>>
      ]_vars

---------------------------------------------------------------------------
(* Running a flow: handleRun, the continuation of handleRun after the      *)
(* await, and handleStop.  A controller is named by the number of the run  *)
(* that created it.                                                        *)

\* What executeFlowWithGemini may answer: success, failure with an error
\* entry among its logs, failure without one, or a rejection.
Outcomes == {"success", "failedWithError", "failed", "rejected"}

\* abortControllerRef.current?.signal.aborted
CurrentAborted == abortControllerRef # Null /\ abortControllerRef.controller \in aborted

\* The entries the continuation of run r appends to the console for an
\* outcome.
ResultEntries(r, outcome) ==
    CASE outcome = "success" ->
             <<[kind |-> "result", run |-> r], [kind |-> "success", run |-> r]>>
      [] outcome = "failedWithError" -> <<[kind |-> "result", run |-> r]>>
      [] outcome = "failed" ->
             <<[kind |-> "result", run |-> r], [kind |-> "error", run |-> r]>>
      [] outcome = "rejected" -> <<[kind |-> "exception", run |-> r]>>

\* A handler or continuation that changes the state of the run and, when it
\* saves the canvas, the flow store.
RunOnly ==
    /\ pc = "idle"
    /\ PanelKept
    /\ UNCHANGED <<projectVariables, codeFiles, tabVars, nodes, editingNode,
                   codeCursorIndex, outVars, clock, histVars, typeVars, parserVars>>

\* handleRun up to the await: the request of the new run is in flight.
handleRun ==
    /\ RunOnly
    /\ IF isRunning
       THEN UNCHANGED <<flows, runVars>>
       ELSE /\ isRunning' = TRUE
            /\ runs' = runs + 1
            /\ abortControllerRef' = [controller |-> runs + 1]
            /\ logs' = <<[kind |-> "start", run |-> runs + 1]>>
            /\ flows' = IF activeFlowId # "" /\ activeTabId = activeFlowId
                        THEN saveCurrentFlowState(flows, activeFlowId) ELSE flows
            /\ pending' = pending \cup {runs + 1}
            /\ UNCHANGED aborted

\* The continuation of handleRun for run r once its request has settled
\* with the given outcome: the try or catch block, then the finally block.
RunSettles(r, outcome) ==
    /\ RunOnly
    /\ r \in pending
    /\ pending' = pending \ {r}
    /\ logs' = IF CurrentAborted THEN logs ELSE logs \o ResultEntries(r, outcome)
    /\ isRunning' = FALSE
    /\ abortControllerRef' = Null
    /\ UNCHANGED <<flows, aborted, runs>>

\* handleStop
handleStop ==
    /\ RunOnly
    /\ aborted' = IF abortControllerRef # Null
                  THEN aborted \cup {abortControllerRef.controller}
                  ELSE aborted
    /\ isRunning' = FALSE
    /\ logs' = Append(logs, [kind |-> "stopped", run |-> runs])
    /\ UNCHANGED <<flows, abortControllerRef, pending, runs>>

---------------------------------------------------------------------------
(* Specification of the runs: up to MaxRuns runs are started, stopped      *)
(* while the flag shows a run, and settle in any order with any outcome.   *)

\* Most runs started.
MaxRuns == 3

InitRun == TypesIdle /\ ParserIdle /\ EditorIdle /\ PanelIdle

NextRun ==
    \/ runs < MaxRuns /\ handleRun
    \/ isRunning /\ handleStop
    \/ \E r \in 1..MaxRuns, outcome \in Outcomes : RunSettles(r, outcome)

SpecRun == InitRun /\ [][NextRun]_vars

\* C25: no entry of the result of a stopped run is appended to the console;
\* the continuation of a stopped run leaves the running flag as it is; and
\* while the running flag is set, at most one run that was not stopped is
\* in flight.
C25_StoppedStaysStopped ==
    [][/\ \A k \in 1..Len(logs') :
              logs'[k].kind \in {"result", "success", "error", "exception"}
                  => logs'[k].run \notin aborted'
       /\ \A r \in aborted : \A outcome \in Outcomes :
              RunSettles(r, outcome) => isRunning' = isRunning
       /\ isRunning' => Cardinality(pending' \ aborted') <= 1
      ]_vars

---------------------------------------------------------------------------
(* Tabs and flows: the close button and the context menu of a tab, the     *)
(* entries of the sidebar, and the rows of the compiler panel.             *)

\* What a handler that works on tabs and flows leaves alone.
TabsOnly ==
    /\ pc = "idle"
    /\ UNCHANGED <<editingNode, codeCursorIndex, runVars, outVars, clock, projectVariables,
                   codeFiles, typeVars, parserVars>>

\* A handler that returns before it sets any state.
Returned ==
    /\ UNCHANGED <<flows, tabs, activeTabId, activeFlowId, nodes, histVars>>
    /\ PanelKept

\* The close button of the k-th tab: handleCloseTab(tab.id, e)
onCloseTab(k) ==
    /\ TabsOnly
    /\ k \in 1..Len(tabs)
    /\ handleCloseTab(tabs[k].id, flows)

\* handleCloseOtherTabs with the context menu open on the tab targetId.
handleCloseOtherTabs(targetId) ==
    LET target == FindTab(targetId)
    IN  /\ TabsOnly
        /\ target # Null
        /\ tabs' = <<target>>
        /\ IF activeTabId # targetId
           THEN handleSwitchTab(targetId, target.type, flows)
           ELSE /\ UNCHANGED <<flows, activeTabId, activeFlowId, nodes, histVars>>
                /\ PanelKept

\* An entry of the sidebar is clicked: onOpenTab(flow.id, 'flow', flow.name)
onOpenFlow(k) ==
    /\ TabsOnly
    /\ k \in 1..Len(flows)
    /\ handleOpenTab(FlowId(flows[k]), "flow", FlowName(flows[k]), flows)

\* onOpenTab(file.id, 'code', file.name)
onOpenCodeFile(k) ==
    /\ TabsOnly
    /\ k \in 1..Len(codeFiles)
    /\ handleOpenTab(codeFiles[k].id, "code", codeFiles[k].name, flows)

RECURSIVE WithoutKey(_, _)
\* const newFlows = { ...flows }; delete newFlows[id]
WithoutKey(store, id) ==
    IF store = <<>> THEN <<>>
    ELSE (IF Head(store).key # id THEN <<Head(store)>> ELSE <<>>)
             \o WithoutKey(Tail(store), id)

\* handleDeleteFlow(id)
handleDeleteFlow(id) ==
    /\ TabsOnly
    /\ IF id = "main" THEN Returned
       ELSE IF FindTab(id) # Null THEN handleCloseTab(id, WithoutKey(flows, id))
       ELSE /\ flows' = WithoutKey(flows, id)
            /\ UNCHANGED <<tabs, activeTabId, activeFlowId, nodes, histVars>>
            /\ PanelKept

\* handleNavigateToIssue(issue.flowId, issue.nodeId) for the p-th row of the
\* compiler panel.  flows[flowId].name throws when the store has no such
\* key, and the handler ends there.
handleNavigateToIssue(p) ==
    LET issue == validationIssues[p]
        files == {k \in 1..Len(codeFiles) : codeFiles[k].id = issue.nodeId}
        file == codeFiles[CHOOSE k \in files : \A j \in files : k <= j]
    IN  /\ TabsOnly
        /\ p \in 1..Len(validationIssues)
        /\ IF issue.flowId = "code-files"
           THEN IF files # {} THEN handleOpenTab(file.id, "code", file.name, flows)
                ELSE Returned
           ELSE IF HasFlow(flows, issue.flowId)
           THEN handleOpenTab(issue.flowId, "flow", FlowName(FlowOf(flows, issue.flowId)),
                              flows)
           ELSE Returned

---------------------------------------------------------------------------
(* Specification of the tab bar.  The session starts after a sub-flow node *)
(* was dropped on main of the new project and eight code files were added: *)
(* nine tabs are open and the last file is on display.  Flows and files    *)
(* are then added, opened, closed and deleted, and the rows of a compile   *)
(* are followed.                                                           *)

\* Code files added before the session starts.
FilesBefore == 8

\* Flows and files the session adds.
MaxAdded == 2

\* The last value of the clock an id is made from.
MaxTabIds == FilesBefore + 1 + MaxAdded

RECURSIVE AddedFiles(_)
\* The files handleAddCodeFile made at the clock values 2..n.
AddedFiles(n) ==
    IF n < 2 THEN <<>>
    ELSE LET content == TemplateContent("Script" \o ToString(n))
         IN  Append(AddedFiles(n - 1),
                    [id |-> "code-" \o ToString(n), name |-> "Script" \o ToString(n) \o ".cs",
                     content |-> content, functions |-> parseCodeFunctions(content),
                     refs |-> <<>>])

RECURSIVE TabsOf(_)
\* The tabs handleOpenTab added for a list of files.
TabsOf(files) ==
    IF files = <<>> THEN <<>>
    ELSE <<[id |-> Head(files).id, type |-> "code", title |-> Head(files).name]>>
             \o TabsOf(Tail(files))

\* The canvas of main when the session starts.
CanvasBefore ==
    Append(INITIAL_NODES,
           [id |-> "subflow-1", type |-> "subflow", data |-> LabelOnly("subflow node")])

InitTabs ==
    /\ projectVariables = <<>>
    /\ flows = <<MainFlow(CanvasBefore, INITIAL_VARIABLES)>>
    /\ codeFiles = AddedFiles(FilesBefore + 1)
    /\ tabs = <<[id |-> "main", type |-> "flow", title |-> "Main Flow"]>> \o TabsOf(codeFiles)
    /\ activeTabId = codeFiles[FilesBefore].id
    /\ activeFlowId = "main"
    /\ nodes = CanvasBefore
    /\ editingNode = Null
    /\ codeCursorIndex = 0
    /\ validationIssues = <<>> /\ showCompilerPanel = FALSE
    /\ referenceResults = <<>> /\ showReferencePanel = FALSE
    /\ clock = FilesBefore + 2
    /\ past = <<INITIAL_NODES>> /\ future = <<>>
    /\ isRunning = FALSE /\ logs = <<>> /\ abortControllerRef = Null
    /\ aborted = {} /\ pending = {} /\ runs = 0
    /\ TypesIdle /\ ParserIdle /\ PanelIdle

\* The entry of the store is a flow with all its fields.
Complete(flow) == {"id", "name", "variables"} \subseteq DOMAIN flow

\* The files added first stay in the project, and their tabs are closed by
\* close-others only: the session works on main, on the file added last
\* and on what it adds itself.
Background == {AddedFiles(FilesBefore)[k].id : k \in 1..(FilesBefore - 1)}

NextTabs ==
    \/ clock <= MaxTabIds /\ handleAddFlow
    \/ clock <= MaxTabIds /\ handleAddCodeFile
    \/ \E k \in 1..(1 + MaxAdded) : k <= Len(flows) /\ Complete(flows[k]) /\ onOpenFlow(k)
    \/ \E k \in 1..(FilesBefore + MaxAdded) :
           k <= Len(codeFiles) /\ codeFiles[k].id \notin Background /\ onOpenCodeFile(k)
    \/ \E k \in 1..10 : k <= Len(tabs) /\ tabs[k].id \notin Background /\ ClickTab(k)
    \/ \E k \in 1..10 : k <= Len(tabs) /\ tabs[k].id \notin Background /\ onCloseTab(k)
    \/ \E k \in 1..10 :
           k <= Len(tabs) /\ tabs[k].id \notin Background /\ handleCloseOtherTabs(tabs[k].id)
    \/ \E k \in 1..(1 + MaxAdded) :
           k <= Len(flows) /\ Complete(flows[k]) /\ handleDeleteFlow(flows[k].id)
    \/ \E k \in 1..(FilesBefore + MaxAdded) :
           k <= Len(codeFiles) /\ codeFiles[k].id \notin Background /\ handleDeleteCodeFile(k)
    \/ ~showCompilerPanel /\ handleCompile
    \/ \E p \in 1..2 :
           /\ p <= Len(validationIssues)
           /\ validationIssues[p].flowId # "code-files" /\ HasFlow(flows, validationIssues[p].flowId)
                  => Complete(FlowOf(flows, validationIssues[p].flowId))
           /\ handleNavigateToIssue(p)

SpecTabs == InitTabs /\ [][NextTabs]_vars

\* C24: after handleDeleteFlow(id) with an id other than 'main' the flow
\* store has no entry under id, and in every reachable state each entry of
\* the store is a complete flow whose id is its key.
C24_DeletedForGood ==
    /\ [][\A k \in 1..Len(flows) :
              flows[k].key # "main" /\ handleDeleteFlow(flows[k].key)
                  => ~HasFlow(flows', flows[k].key)
         ]_vars
    /\ [](\A k \in 1..Len(flows) : Complete(flows[k]) /\ flows[k].id = flows[k].key)

\* The only tab of the bar is the tab of main.
SoleMain == Len(tabs) = 1 /\ tabs[1].id = "main"

\* The tab bar and the active tab agree.
TabBarConsistent ==
    /\ Len(tabs) <= 10
    /\ \A j \in 1..Len(tabs) : \A k \in 1..Len(tabs) : tabs[j].id = tabs[k].id => j = k
    /\ IF tabs = <<>> THEN activeTabId = "" ELSE FindTab(activeTabId) # Null

\* The step opens the id of a tab of the bar.
OpensOpenTab(id) ==
    /\ FindTab(id) # Null
    /\ \/ \E k \in 1..Len(flows) : Complete(flows[k]) /\ flows[k].id = id /\ onOpenFlow(k)
       \/ \E k \in 1..Len(codeFiles) : codeFiles[k].id = id /\ onOpenCodeFile(k)
       \/ \E p \in 1..Len(validationIssues) :
              /\ handleNavigateToIssue(p)
              /\ id = IF validationIssues[p].flowId = "code-files"
                      THEN validationIssues[p].nodeId ELSE validationIssues[p].flowId
              /\ validationIssues[p].flowId # "code-files" => HasFlow(flows, id)
              /\ validationIssues[p].flowId = "code-files"
                     => \E k \in 1..Len(codeFiles) : codeFiles[k].id = id

====
